---------------------------- MODULE Spec2Model ----------------------------
(* Model of the MovizLand data layer (src/app/(tabs)/apiUtils.ts): title    *)
(* clean-up, marker-tag extraction, series/movie classification, the        *)
(* series-category registry, the section builders, the de-duplicator and   *)
(* withRetry and fetchCategories; of the paginated tabs of the list screen *)
(* (list.tsx), of the progressive loading of the series screen             *)
(* (series.tsx) and of the mode switch of the movies screen (index.tsx).    *)
(*                                                                          *)
(* A JavaScript string is a sequence of characters; a character is a        *)
(* one-character string, except that a non-ASCII code unit is written as a  *)
(* token naming it ("ar_lam" is ARABIC LETTER LAM, "nbsp" is U+00A0).       *)
EXTENDS Integers, Sequences, FiniteSets, Bags, TLC

VARIABLES
    KNOWN_SERIES_CAT_IDS, \* the module-level Set<number> (apiUtils.ts:137)
    cats,                 \* argument of the latest discoverSeriesCategories call
    post,                 \* the post handed to isSeries / isMovie
    verdict,              \* results of isSeries(post) and isMovie(post)
    feed,                 \* the post list handed to the section builders
    built,                \* the section-builder calls made so far, with their results
    dedupIn,              \* argument of the deduplicateSections call
    shown,                \* result of the deduplicateSections call
    deduped,              \* TRUE once deduplicateSections has been called
    \* the list screen (src/app/(tabs)/list.tsx)
    tabs,                 \* useState<Tab[]>
    activeKey,            \* useState<string>
    tabStates,            \* useState<Record<string, TabState>>
    initialLoading,       \* useState(true)
    refreshing,           \* useState(false)
    loadedRef,            \* useRef<Set<string>>
    bootPc,               \* where boot() stands
    pageFetches,          \* the fetchPage calls of loadFirstPage / loadNextPage in flight
    \* the series screen (src/app/(tabs)/series.tsx)
    seriesSections,       \* useState<DynamicSection[]>, named sections in series.tsx
    loading,              \* useState(true)
    error,                \* useState(false)
    seriesRefreshing,     \* useState(false), named refreshing in series.tsx
    seenKeys,             \* useRef<Set<string>>
    loadCount,            \* number of load() calls so far
    pinnedFetches,        \* the load() calls waiting for their Promise.all
    categoryFetches,      \* the background fetchPage calls of load() in flight
    \* one withRetry call (apiUtils.ts:50)
    retry,
    \* calls of the marker-tag helpers (apiUtils.ts:111-169)
    tagPost,              \* the post handed to safeClassList / getClass / isSeries / isMovie
    tagRead,              \* what each of the calls made so far returned or threw
    \* calls of cleanTitle (apiUtils.ts:92)
    rawTitle,             \* the text handed to cleanTitle
    cleaned,              \* cleanTitle(rawTitle) and cleanTitle of that result
    \* one fetchCategories call (apiUtils.ts:241)
    catFetch,             \* its attempt, the requests it has sent and their answers
    \* the movies screen (src/app/(tabs)/index.tsx)
    movieMode,            \* useState<"trending" | "latest">, named mode in index.tsx
    taxMode,              \* useState<TaxMode | null>
    movieSections,        \* useState<Section[]>, named sections in index.tsx
    postsBySection,       \* useState<Record<number, WPPost[]>>
    moviesLoading,        \* useState(true), named loading in index.tsx
    initPc,               \* where init() stands
    sectionLoads          \* the loadAllSections calls waiting for their Promise.all

libVars == <<KNOWN_SERIES_CAT_IDS, cats, post, verdict, feed, built, dedupIn, shown, deduped>>
listVars == <<tabs, activeKey, tabStates, initialLoading, refreshing, loadedRef, bootPc,
              pageFetches>>
seriesVars == <<seriesSections, loading, error, seriesRefreshing, seenKeys, loadCount,
                pinnedFetches, categoryFetches>>
tagVars == <<tagPost, tagRead>>
titleVars == <<rawTitle, cleaned>>
moviesVars == <<movieMode, taxMode, movieSections, postsBySection, moviesLoading,
                initPc, sectionLoads>>
restVars == <<tagVars, titleVars, catFetch, moviesVars>>
screenVars == <<listVars, seriesVars, retry, restVars>>

vars == <<libVars, listVars, seriesVars, retry, restVars>>

---------------------------------------------------------------------------
(* Bounds of the model.                                                     *)
MaxCats == 3      \* categories in one fetchCategories result
MaxTags == 2      \* marker tags on one classified post
MaxFeed == 3      \* posts in one fetched list (short feeds)
MaxLong == 11     \* posts of one group in a long feed (one past the section cap)
MaxBuilds == 2    \* section-builder results concatenated before de-duplication

---------------------------------------------------------------------------
(* JavaScript string primitives.                                            *)
LowerAlpha == <<"a", "b", "c", "d", "e", "f", "g", "h", "i", "j", "k", "l", "m", "n", "o", "p", "q", "r", "s", "t", "u", "v", "w", "x", "y", "z">>
UpperAlpha == <<"A", "B", "C", "D", "E", "F", "G", "H", "I", "J", "K", "L", "M", "N", "O", "P", "Q", "R", "S", "T", "U", "V", "W", "X", "Y", "Z">>
Digits == <<"0", "1", "2", "3", "4", "5", "6", "7", "8", "9">>

Range(f) == {f[i] : i \in DOMAIN f}

\* /\d/
IsDigit(c) == c \in Range(Digits)

\* /[a-z]/i
IsLetter(c) == c \in Range(LowerAlpha) \cup Range(UpperAlpha)

\* /\w/ : the word characters that decide \b
IsWord(c) == IsLetter(c) \/ IsDigit(c) \/ c = "_"

\* /\s/ and the characters String.prototype.trim removes
WhiteSpace == {" ", "\t", "\n", "nbsp"}

IsSpace(c) == c \in WhiteSpace

\* one character of String.prototype.toLowerCase (also the /i canonical form)
LowerChar(c) ==
    IF c \in Range(UpperAlpha)
    THEN LowerAlpha[CHOOSE k \in 1..26 : UpperAlpha[k] = c]
    ELSE c

toLowerCase(s) == [i \in 1..Len(s) |-> LowerChar(s[i])]

\* the literal pat occurs in s at position i
LitAt(s, i, pat) ==
    /\ i >= 1
    /\ i + Len(pat) - 1 <= Len(s)
    /\ \A k \in 1..Len(pat) : s[i + k - 1] = pat[k]

\* the same under the /i flag (pat is lower case)
LitAtCI(s, i, pat) ==
    /\ i >= 1
    /\ i + Len(pat) - 1 <= Len(s)
    /\ \A k \in 1..Len(pat) : LowerChar(s[i + k - 1]) = pat[k]

\* String.prototype.includes
includes(s, pat) == \E i \in 1..(Len(s) + 1) : LitAt(s, i, pat)

\* String.prototype.startsWith
startsWith(s, pat) == LitAt(s, 1, pat)

\* String.prototype.slice(n) with n >= 0 (n counts characters from 0)
sliceFrom(s, n) == SubSeq(s, n + 1, Len(s))

\* slice(0, n) with the cap forgotten
sliceTo_NoCap(s, n) == s

\* Array.prototype.slice(0, n)
sliceTo(s, n) == SubSeq(s, 1, IF Len(s) < n THEN Len(s) ELSE n)

\* /^\d+$/.test(s)
AllDigits(s) == Len(s) >= 1 /\ \A k \in 1..Len(s) : IsDigit(s[k])

\* Number(code) for a string of decimal digits
RECURSIVE NumberOf(_)
NumberOf(ds) ==
    IF ds = <<>> THEN 0
    ELSE 10 * NumberOf(SubSeq(ds, 1, Len(ds) - 1))
         + ((CHOOSE k \in 1..10 : Digits[k] = ds[Len(ds)]) - 1)

\* Number.prototype.toString for a non-negative integer
RECURSIVE NumToString(_)
NumToString(n) ==
    IF n < 10 THEN <<Digits[n + 1]>>
    ELSE NumToString(n \div 10) \o <<Digits[(n % 10) + 1]>>

\* String.fromCharCode: the UTF-16 code units the modelled titles can decode
\* to; every other code unit is the one character "other".
CodeTable ==
    (32 :> " ") @@ (35 :> "#") @@ (38 :> "&") @@ (50 :> "2") @@ (59 :> ";")
    @@ (60 :> "<") @@ (62 :> ">") @@ (69 :> "E") @@ (83 :> "S")
    @@ (97 :> "a") @@ (160 :> "nbsp")

fromCharCode(n) ==
    LET u == n % 65536
    IN  IF u \in DOMAIN CodeTable THEN CodeTable[u] ELSE "other"

---------------------------------------------------------------------------
(* cleanTitle (apiUtils.ts:92-103): nine replace passes and a trim, each    *)
(* pass a left-to-right scan for non-overlapping matches.                   *)

\* .replace(/<[^>]*>/g, "")
RECURSIVE stripTags(_)
stripTags(s) ==
    IF s = <<>> THEN <<>>
    ELSE IF Head(s) = "<" /\ \E j \in 2..Len(s) : s[j] = ">"
    THEN LET close == CHOOSE j \in 2..Len(s) :
                          s[j] = ">" /\ \A k \in 2..(j - 1) : s[k] # ">"
         IN  stripTags(SubSeq(s, close + 1, Len(s)))
    ELSE <<Head(s)>> \o stripTags(Tail(s))

\* last index of the run of characters of the set class that starts at i
\* (i - 1 when the run is empty): the greedy \d+, [a-z]+ and \s*
RunEnd(s, i, class) ==
    CHOOSE j \in (i - 1)..Len(s) :
        /\ \A k \in i..j : s[k] \in class
        /\ j < Len(s) => s[j + 1] \notin class

\* .replace(/&#(\d+);/g, (_, code) => String.fromCharCode(Number(code)))
RECURSIVE decodeNumeric(_)
decodeNumeric(s) ==
    IF s = <<>> THEN <<>>
    ELSE LET e == RunEnd(s, 3, Range(Digits))
         IN  IF /\ LitAt(s, 1, <<"&", "#">>)
                /\ e >= 3
                /\ e < Len(s)
                /\ s[e + 1] = ";"
             THEN <<fromCharCode(NumberOf(SubSeq(s, 3, e)))>>
                  \o decodeNumeric(SubSeq(s, e + 2, Len(s)))
             ELSE <<Head(s)>> \o decodeNumeric(Tail(s))

\* .replace(/<literal>/gi, rep)
RECURSIVE replaceCI(_, _, _)
replaceCI(s, pat, rep) ==
    IF s = <<>> THEN <<>>
    ELSE IF LitAtCI(s, 1, pat)
    THEN rep \o replaceCI(SubSeq(s, Len(pat) + 1, Len(s)), pat, rep)
    ELSE <<Head(s)>> \o replaceCI(Tail(s), pat, rep)

\* .replace(/&[a-z]+;/gi, "")
RECURSIVE removeNamed(_)
removeNamed(s) ==
    IF s = <<>> THEN <<>>
    ELSE LET e == RunEnd(s, 2, Range(LowerAlpha) \cup Range(UpperAlpha))
         IN  IF Head(s) = "&" /\ e >= 2 /\ e < Len(s) /\ s[e + 1] = ";"
             THEN removeNamed(SubSeq(s, e + 2, Len(s)))
             ELSE <<Head(s)>> \o removeNamed(Tail(s))

\* String.prototype.trim
RECURSIVE trim(_)
trim(s) ==
    IF s = <<>> THEN <<>>
    ELSE IF IsSpace(Head(s)) THEN trim(Tail(s))
    ELSE IF IsSpace(s[Len(s)]) THEN trim(SubSeq(s, 1, Len(s) - 1))
    ELSE s

cleanTitle(html) ==
    LET t1 == stripTags(html)
        t2 == decodeNumeric(t1)
        t3 == replaceCI(t2, <<"&", "a", "m", "p", ";">>, <<"&">>)
        t4 == replaceCI(t3, <<"&", "l", "t", ";">>, <<"<">>)
        t5 == replaceCI(t4, <<"&", "g", "t", ";">>, <<">">>)
        t6 == replaceCI(t5, <<"&", "q", "u", "o", "t", ";">>, <<"\"">>)
        t7 == replaceCI(t6, <<"&", "a", "p", "o", "s", ";">>, <<"'">>)
        t8 == replaceCI(t7, <<"&", "n", "b", "s", "p", ";">>, <<" ">>)
        t9 == removeNamed(t8)
    IN  trim(t9)

---------------------------------------------------------------------------
(* Marker tags.  post.class_list is [shape, items]: shape says what the     *)
(* remote delivered (nothing, an array, a map-like object, or some other    *)
(* truthy scalar), items are the entries in source order (Object.values     *)
(* order for an object).  An entry is [str, s]: str says whether it is a    *)
(* string, s is its characters.                                             *)

safeClassList(p) ==
    LET cl == p.class_list
    IN  IF cl.shape = "absent" THEN <<>>
        ELSE IF cl.shape = "array" THEN cl.items
        ELSE IF cl.shape = "object" THEN SelectSeq(cl.items, LAMBDA v : v.str)
        ELSE <<>>

---------------------------------------------------------------------------
(* Series vs movie discrimination (apiUtils.ts:136-169).                    *)

SeedSeriesCatId == 35307

SERIES_KEYWORDS == <<
    <<"ar_meem", "ar_seen", "ar_lam", "ar_seen", "ar_lam">>,
    <<"ar_meem", "ar_seen", "ar_lam", "ar_seen", "ar_lam", "ar_alef", "ar_teh">>,
    <<"s", "e", "r", "i", "e", "s">>,
    <<"e", "p", "i", "s", "o", "d", "e">>,
    <<"ar_hah", "ar_lam", "ar_qaf", "ar_teh_marbuta">>,
    <<"ar_hah", "ar_lam", "ar_qaf", "ar_alef", "ar_teh">>,
    <<"ar_meem", "ar_waw", "ar_seen", "ar_meem">>,
    <<"s", "e", "a", "s", "o", "n">> >>

\* the scan with nationality keywords among the series keywords
discoverSeriesCategories_CountryKeywords(known, cs) ==
    known \cup
    {cs[i].id : i \in {k \in 1..Len(cs) :
        LET n == toLowerCase(cs[k].name)
        IN  \/ \E j \in 1..Len(SERIES_KEYWORDS) : includes(n, SERIES_KEYWORDS[j])
            \/ includes(n, <<"t", "u", "r", "k">>)
            \/ includes(n, <<"k", "o", "r", "e", "a", "n">>)}}

\* the scan rebuilding the registry from the seed instead of adding to it
discoverSeriesCategories_Rebuild(known, cs) ==
    {SeedSeriesCatId} \cup
    {cs[i].id : i \in {k \in 1..Len(cs) :
        LET n == toLowerCase(cs[k].name)
        IN  \E j \in 1..Len(SERIES_KEYWORDS) : includes(n, SERIES_KEYWORDS[j])}}

\* the registry after discoverSeriesCategories(cs), called when it holds known
discoverSeriesCategories(known, cs) ==
    known \cup
    {cs[i].id : i \in {k \in 1..Len(cs) :
        LET n == toLowerCase(cs[k].name)
        IN  \E j \in 1..Len(SERIES_KEYWORDS) : includes(n, SERIES_KEYWORDS[j])}}

\* first index at or after i that is not white space ( \s* is greedy and the
\* next atom is a digit, so backtracking never helps)
SkipSpaces(s, i) == RunEnd(s, i, WhiteSpace) + 1

DigitAt(s, i) == i >= 1 /\ i <= Len(s) /\ IsDigit(s[i])

\* \b before the word character at position i
WordStart(s, i) == i = 1 \/ ~IsWord(s[i - 1])

\* the title pattern without the spelling "halqh"
EpisodeMatchAt_NoHalqh(s, i) ==
    \/ LitAt(s, i, <<"ar_alef", "ar_lam", "ar_hah", "ar_lam", "ar_qaf", "ar_teh_marbuta">>)
    \/ LitAt(s, i, <<"ar_meem", "ar_sheen", "ar_alef", "ar_heh", "ar_dal", "ar_teh_marbuta", " ", "ar_hah", "ar_lam", "ar_qaf", "ar_teh_marbuta">>)
    \/ /\ WordStart(s, i)
       /\ LitAtCI(s, i, <<"e", "p">>)
       /\ LET j == IF LitAt(s, i + 2, <<".">>) THEN i + 3 ELSE i + 2
          IN  DigitAt(s, SkipSpaces(s, j))
    \/ /\ WordStart(s, i)
       /\ LitAtCI(s, i, <<"e", "p", "i", "s", "o", "d", "e">>)
       /\ DigitAt(s, SkipSpaces(s, i + 7))
    \/ /\ LitAtCI(s, i, <<"s">>)
       /\ DigitAt(s, i + 1)
       /\ \/ LitAtCI(s, i + 2, <<"e">>) /\ DigitAt(s, i + 3)
          \/ DigitAt(s, i + 2) /\ LitAtCI(s, i + 3, <<"e">>) /\ DigitAt(s, i + 4)

\* EPISODE_TITLE_RE matches at position i of s
EpisodeMatchAt(s, i) ==
    \/ LitAt(s, i, <<"ar_alef", "ar_lam", "ar_hah", "ar_lam", "ar_qaf", "ar_teh_marbuta">>)
    \/ LitAt(s, i, <<"ar_meem", "ar_sheen", "ar_alef", "ar_heh", "ar_dal", "ar_teh_marbuta", " ", "ar_hah", "ar_lam", "ar_qaf", "ar_teh_marbuta">>)
    \/ LitAt(s, i, <<"ar_hah", "ar_lam", "ar_qaf", "ar_heh">>)
    \/ /\ WordStart(s, i)
       /\ LitAtCI(s, i, <<"e", "p">>)
       /\ LET j == IF LitAt(s, i + 2, <<".">>) THEN i + 3 ELSE i + 2
          IN  DigitAt(s, SkipSpaces(s, j))
    \/ /\ WordStart(s, i)
       /\ LitAtCI(s, i, <<"e", "p", "i", "s", "o", "d", "e">>)
       /\ DigitAt(s, SkipSpaces(s, i + 7))
    \/ /\ LitAtCI(s, i, <<"s">>)
       /\ DigitAt(s, i + 1)
       /\ \/ LitAtCI(s, i + 2, <<"e">>) /\ DigitAt(s, i + 3)
          \/ DigitAt(s, i + 2) /\ LitAtCI(s, i + 3, <<"e">>) /\ DigitAt(s, i + 4)

\* EPISODE_TITLE_RE.test(s)
EPISODE_TITLE_RE(s) == \E i \in 1..Len(s) : EpisodeMatchAt(s, i)

\* the tag test without the exclusion of series-<digits>
SeriesSlugTag_AnySuffix(c) == startsWith(c, <<"s", "e", "r", "i", "e", "s", "-">>)

\* c.startsWith("series-") && !/^series-\d+$/.test(c)
SeriesSlugTag(c) ==
    startsWith(c, <<"s", "e", "r", "i", "e", "s", "-">>) /\ ~AllDigits(sliceFrom(c, 7))

\* isSeries testing the raw title instead of the cleaned one
isSeries_RawTitle(p) ==
    LET classList == safeClassList(p)
    IN  IF \E i \in 1..Len(classList) :
               /\ startsWith(classList[i].s, <<"s", "e", "r", "i", "e", "s", "-">>)
               /\ ~AllDigits(sliceFrom(classList[i].s, 7))
        THEN TRUE
        ELSE \E i \in 1..Len(p.title) : EpisodeMatchAt(p.title, i)

isSeries(p) ==
    LET classList == safeClassList(p)
    IN  IF \E i \in 1..Len(classList) : SeriesSlugTag(classList[i].s)
        THEN TRUE
        ELSE EPISODE_TITLE_RE(cleanTitle(p.title))

isMovie(p) == ~isSeries(p)

---------------------------------------------------------------------------
(* getClass / hasClasses (apiUtils.ts:123-134).  null is modelled as the    *)
(* empty string: a match is never empty, and every caller only tests the    *)
(* result for truthiness.                                                   *)

getClass_LastMatch(p, prefix) ==
    LET cl == safeClassList(p)
        n == Len(prefix) + 1
        ok(x) == /\ startsWith(x, prefix \o <<"-">>)
                 /\ Len(x) > n
                 /\ (prefix = <<"s", "e", "r", "i", "e", "s">> \/ AllDigits(sliceFrom(x, n)))
        hits == {i \in 1..Len(cl) : ok(cl[i].s)}
    IN  IF hits = {} THEN <<>>
        ELSE sliceFrom(cl[CHOOSE i \in hits : \A j \in hits : i >= j].s, n)

getClass(p, prefix) ==
    LET cl == safeClassList(p)
        n == Len(prefix) + 1
        ok(x) == /\ startsWith(x, prefix \o <<"-">>)
                 /\ Len(x) > n
                 /\ (prefix = <<"s", "e", "r", "i", "e", "s">> \/ AllDigits(sliceFrom(x, n)))
        hits == {i \in 1..Len(cl) : ok(cl[i].s)}
    IN  IF hits = {} THEN <<>>
        ELSE sliceFrom(cl[CHOOSE i \in hits : \A j \in hits : i <= j].s, n)

hasClasses(p, classes) ==
    \A c \in Range(classes) :
        \E i \in 1..Len(safeClassList(p)) : safeClassList(p)[i].s = c

---------------------------------------------------------------------------
(* Known taxonomy mappings (apiUtils.ts:173-184).                           *)

COUNTRY_META ==
    (<<"1", "6", "3", "2", "8">> :> [label |-> <<"ar_teh", "ar_reh", "ar_kaf", "ar_yeh", "ar_teh_marbuta">>, emoji |-> "flag-tr"])
    @@ (<<"1">> :> [label |-> <<"ar_ain", "ar_reh", "ar_beh", "ar_yeh", "ar_teh_marbuta">>, emoji |-> "globe-africa"])
    @@ (<<"6", "4", "9">> :> [label |-> <<"ar_heh", "ar_noon", "ar_dal", "ar_yeh", "ar_teh_marbuta">>, emoji |-> "flag-in"])
    @@ (<<"3", "5", "2", "1", "9">> :> [label |-> <<"ar_alef_hamza_above", "ar_jeem", "ar_noon", "ar_beh", "ar_yeh", "ar_teh_marbuta">>, emoji |-> "globe-meridians"])

LANG_META ==
    (<<"6", "0", "6">> :> [label |-> <<"ar_meem", "ar_dal", "ar_beh", "ar_lam", "ar_jeem", "ar_teh_marbuta">>, emoji |-> "microphone"])
    @@ (<<"5", "9", "5">> :> [label |-> <<"ar_meem", "ar_teh", "ar_reh", "ar_jeem", "ar_meem", "ar_teh_marbuta">>, emoji |-> "memo"])
    @@ (<<"3", "4">> :> [label |-> <<"ar_meem", "ar_teh", "ar_reh", "ar_jeem", "ar_meem", "ar_teh_marbuta">>, emoji |-> "memo"])

---------------------------------------------------------------------------
(* Helpers for the section builders: a JavaScript Map iterates its keys in  *)
(* insertion order, and Array.prototype.sort is stable.                     *)

\* the distinct truthy keys of ks, in order of first occurrence
RECURSIVE MapKeys(_)
MapKeys(ks) ==
    IF ks = <<>> THEN <<>>
    ELSE LET front == MapKeys(SubSeq(ks, 1, Len(ks) - 1))
             k == ks[Len(ks)]
         IN  IF k = <<>> \/ k \in Range(front) THEN front ELSE Append(front, k)

\* the order in which [...].sort((a, b) => rank(b) - rank(a)) leaves the
\* elements, as the sequence of their original indices; ranks[i] is rank of
\* element i
RECURSIVE SortDescOrder(_)
SortDescOrder(ranks) ==
    IF ranks = <<>> THEN <<>>
    ELSE LET n == Len(ranks)
             front == SortDescOrder(SubSeq(ranks, 1, n - 1))
             k == Cardinality({i \in 1..Len(front) : ranks[front[i]] >= ranks[n]})
         IN  SubSeq(front, 1, k) \o <<n>> \o SubSeq(front, k + 1, Len(front))

\* entries.sort((a, b) => b[1].length - a[1].length)
SortBySizeDesc(es) ==
    LET order == SortDescOrder([i \in 1..Len(es) |-> Len(es[i].ps)])
    IN  [k \in 1..Len(es) |-> es[order[k]]]

MinSectionSize == 2
MaxSectionPosts == 10

\* the Map<string, WPPost[]> built by the grouping loops, as its entries;
\* ks[i] is the key derived from posts[i], falsy when the post is skipped
GroupBy(posts, ks) ==
    LET ids == MapKeys(ks)
        RECURSIVE Members(_, _)
        Members(id, n) ==
            IF n = 0 THEN <<>>
            ELSE IF ks[n] = id THEN Append(Members(id, n - 1), posts[n])
            ELSE Members(id, n - 1)
    IN  [k \in 1..Len(ids) |-> [id |-> ids[k], ps |-> Members(ids[k], Len(posts))]]

buildCountrySections_ListedOnly(posts) ==
    LET map == GroupBy(posts,
                       [i \in 1..Len(posts) |-> getClass(posts[i], <<"c", "o", "u", "n", "t", "r", "y">>)])
        big == SelectSeq(map, LAMBDA e : /\ Len(e.ps) >= MinSectionSize
                                         /\ e.id \in DOMAIN COUNTRY_META)
        sorted == SortBySizeDesc(big)
    IN  [k \in 1..Len(sorted) |->
            [key |-> <<"c", "o", "u", "n", "t", "r", "y", "-">> \o sorted[k].id,
             label |-> COUNTRY_META[sorted[k].id].label,
             emoji |-> COUNTRY_META[sorted[k].id].emoji,
             posts |-> sliceTo(sorted[k].ps, MaxSectionPosts)]]

buildCountrySections(posts) ==
    LET map == GroupBy(posts,
                       [i \in 1..Len(posts) |-> getClass(posts[i], <<"c", "o", "u", "n", "t", "r", "y">>)])
        big == SelectSeq(map, LAMBDA e : Len(e.ps) >= MinSectionSize)
        sorted == SortBySizeDesc(big)
    IN  [k \in 1..Len(sorted) |->
            LET id == sorted[k].id
                known == id \in DOMAIN COUNTRY_META
            IN  [key |-> <<"c", "o", "u", "n", "t", "r", "y", "-">> \o id,
                 label |-> IF known THEN COUNTRY_META[id].label
                           ELSE <<"ar_beh", "ar_lam", "ar_dal", " ", "#">> \o id,
                 emoji |-> IF known THEN COUNTRY_META[id].emoji
                           ELSE "globe-meridians",
                 posts |-> sliceTo(sorted[k].ps, MaxSectionPosts)]]

\* the loop of buildLanguageSections over the first n map entries:
\* [sections, seen]
RECURSIVE LanguageLoop(_, _)
LanguageLoop(map, n) ==
    IF n = 0 THEN [sections |-> <<>>, seen |-> {}]
    ELSE LET prev == LanguageLoop(map, n - 1)
             id == map[n].id
             ps == map[n].ps
         IN  IF Len(ps) < MinSectionSize THEN prev
             ELSE IF id \notin DOMAIN LANG_META THEN prev
             ELSE IF LANG_META[id].label \in prev.seen THEN prev
             ELSE [sections |-> Append(prev.sections,
                        [key |-> <<"l", "a", "n", "g", "-">> \o id,
                         label |-> LANG_META[id].label,
                         emoji |-> LANG_META[id].emoji,
                         posts |-> sliceTo(ps, MaxSectionPosts)]),
                   seen |-> prev.seen \cup {LANG_META[id].label}]

buildLanguageSections(posts) ==
    LET map == GroupBy(posts,
                       [i \in 1..Len(posts) |-> getClass(posts[i], <<"l", "a", "n", "g", "u", "a", "g", "e">>)])
    IN  LanguageLoop(map, Len(map)).sections

emojiForName(name) ==
    LET n == toLowerCase(name)
    IN  IF includes(n, <<"ar_teh", "ar_reh", "ar_kaf", "ar_yeh">>) \/ includes(n, <<"t", "u", "r", "k">>) THEN "flag-tr"
        ELSE IF includes(n, <<"ar_kaf", "ar_waw", "ar_reh", "ar_yeh">>) \/ includes(n, <<"k", "o", "r", "e", "a", "n">>) THEN "flag-kr"
        ELSE IF includes(n, <<"ar_heh", "ar_noon", "ar_dal", "ar_yeh">>) \/ includes(n, <<"h", "i", "n", "d", "i">>) THEN "flag-in"
        ELSE IF includes(n, <<"ar_ain", "ar_reh", "ar_beh", "ar_yeh">>) \/ includes(n, <<"a", "r", "a", "b">>) THEN "globe-africa"
        ELSE IF \/ includes(n, <<"ar_alef_hamza_above", "ar_jeem", "ar_noon", "ar_beh", "ar_yeh">>)
                \/ includes(n, <<"f", "o", "r", "e", "i", "g", "n">>)
                \/ includes(n, <<"e", "n", "g", "l", "i", "s", "h">>) THEN "globe-meridians"
        ELSE IF includes(n, <<"ar_alef_hamza_above", "ar_noon", "ar_meem", "ar_yeh">>) \/ includes(n, <<"a", "n", "i", "m", "e">>) THEN "crossed-flags"
        ELSE IF includes(n, <<"ar_meem", "ar_seen", "ar_lam", "ar_seen", "ar_lam">>) \/ includes(n, <<"s", "e", "r", "i", "e", "s">>) THEN "television"
        ELSE IF includes(n, <<"ar_feh", "ar_yeh", "ar_lam", "ar_meem">>) \/ includes(n, <<"m", "o", "v", "i", "e">>) THEN "clapper"
        ELSE IF includes(n, <<"ar_reh", "ar_ain", "ar_beh">>) \/ includes(n, <<"h", "o", "r", "r", "o", "r">>) THEN "ghost"
        ELSE IF includes(n, <<"ar_kaf", "ar_waw", "ar_meem", "ar_yeh", "ar_dal", "ar_yeh">>) \/ includes(n, <<"c", "o", "m", "e", "d", "y">>) THEN "joy"
        ELSE IF includes(n, <<"ar_reh", "ar_waw", "ar_meem", "ar_alef", "ar_noon", "ar_seen", "ar_yeh">>) \/ includes(n, <<"r", "o", "m", "a", "n", "c", "e">>) THEN "hearts"
        ELSE IF includes(n, <<"ar_alef_hamza_above", "ar_kaf", "ar_sheen", "ar_noon">>) \/ includes(n, <<"a", "c", "t", "i", "o", "n">>) THEN "collision"
        ELSE "television"

\* a grouping loop that skips no category
CategoryPairs_NoSkip(posts, skip) ==
    LET RECURSIVE All(_)
        All(ps) ==
            IF ps = <<>> THEN <<>>
            ELSE [j \in 1..Len(Head(ps).categories) |->
                     [catId |-> Head(ps).categories[j], p |-> Head(ps)]]
                 \o All(Tail(ps))
    IN  All(posts)

\* the (post, category id) pairs the grouping loop of buildCategorySections
\* pushes, in order
RECURSIVE CategoryPairs(_, _)
CategoryPairs(posts, skip) ==
    IF posts = <<>> THEN <<>>
    ELSE LET p == Head(posts)
             own == [j \in 1..Len(p.categories) |->
                        [catId |-> p.categories[j], p |-> p]]
         IN  SelectSeq(own, LAMBDA e : e.catId \notin skip)
             \o CategoryPairs(Tail(posts), skip)

buildCategorySections(posts, cs, excludeSeriesCategories, known) ==
    LET named == {cs[i].id : i \in 1..Len(cs)}
        \* new Map(cats.map(...)): the last entry for an id wins
        catName(id) ==
            cs[CHOOSE i \in 1..Len(cs) :
                   cs[i].id = id /\ \A j \in (i + 1)..Len(cs) : cs[j].id # id].name
        pairs == CategoryPairs(posts,
                               IF excludeSeriesCategories THEN known ELSE {})
        \* category ids are numbers; <<id>> keeps them apart from the falsy key
        ids == MapKeys([i \in 1..Len(pairs) |-> <<pairs[i].catId>>])
        map == [k \in 1..Len(ids) |->
                   [id |-> ids[k][1],
                    ps |-> LET mine == SelectSeq(pairs,
                                           LAMBDA e : e.catId = ids[k][1])
                           IN  [j \in 1..Len(mine) |-> mine[j].p]]]
        keep(e) ==
            /\ Len(e.ps) >= MinSectionSize
            /\ LET name == toLowerCase(IF e.id \in named THEN catName(e.id)
                                       ELSE <<>>)
               IN  /\ ~includes(name, <<"u", "n", "c", "a", "t", "e", "g", "o", "r">>)
                   /\ ~includes(name, <<"ar_ghain", "ar_yeh", "ar_reh", " ", "ar_meem", "ar_sad", "ar_noon", "ar_feh">>)
        sorted == SortBySizeDesc(SelectSeq(map, keep))
    IN  [k \in 1..Len(sorted) |->
            LET id == sorted[k].id
                name == IF id \in named THEN catName(id)
                        ELSE <<"ar_teh", "ar_sad", "ar_noon", "ar_yeh", "ar_feh", " ">> \o NumToString(id)
            IN  [key |-> <<"c", "a", "t", "-">> \o NumToString(id),
                 label |-> name,
                 emoji |-> emojiForName(name),
                 posts |-> sliceTo(sorted[k].ps, MaxSectionPosts)]]

CrossFilterCombos == <<
    [key |-> <<"t", "r", "-", "d", "u", "b">>, label |-> <<"ar_teh", "ar_reh", "ar_kaf", "ar_yeh", "ar_teh_marbuta", " ", "ar_meem", "ar_dal", "ar_beh", "ar_lam", "ar_jeem", "ar_teh_marbuta">>, emoji |-> "flag-tr-microphone",
     country |-> <<"1", "6", "3", "2", "8">>, language |-> <<"6", "0", "6">>],
    [key |-> <<"t", "r", "-", "s", "u", "b">>, label |-> <<"ar_teh", "ar_reh", "ar_kaf", "ar_yeh", "ar_teh_marbuta", " ", "ar_meem", "ar_teh", "ar_reh", "ar_jeem", "ar_meem", "ar_teh_marbuta">>, emoji |-> "flag-tr-memo",
     country |-> <<"1", "6", "3", "2", "8">>, language |-> <<"5", "9", "5">>] >>

buildCrossFilterSections(posts) ==
    LET mapped == [k \in 1..Len(CrossFilterCombos) |->
            LET c == CrossFilterCombos[k]
            IN  [key |-> c.key, label |-> c.label, emoji |-> c.emoji,
                 posts |-> sliceTo(
                     SelectSeq(posts, LAMBDA p :
                         hasClasses(p, <<<<"c", "o", "u", "n", "t", "r", "y", "-">> \o c.country,
                                         <<"l", "a", "n", "g", "u", "a", "g", "e", "-">> \o c.language>>)),
                     MaxSectionPosts)]]
    IN  SelectSeq(mapped, LAMBDA s : Len(s.posts) >= MinSectionSize)

\* new Date().getFullYear() at the time of the call
CurrentYear == 2026

\* new Date(p.date).getFullYear(): the model keeps of the ISO timestamp in
\* post.date only its local-time year
getFullYear(date) == date

\* a sort key that tells no two labels apart
LabelYear_Zero(label) == 0

\* parseInt(label.match(/\d{4}/)?.[0] ?? "0")
LabelYear(label) ==
    LET at == {i \in 1..Len(label) : \A k \in 0..3 : DigitAt(label, i + k)}
    IN  IF at = {} THEN 0
        ELSE LET i == CHOOSE i \in at : \A j \in at : i <= j
             IN  NumberOf(SubSeq(label, i, i + 3))

\* the latest publish year of ps
ModeYear_Latest(ps) ==
    LET ys == {getFullYear(ps[i].date) : i \in 1..Len(ps)}
    IN  NumToString(CHOOSE y \in ys : \A z \in ys : z <= y)

\* the most frequent publish year of ps, as buildYearSections picks it
ModeYear(ps) ==
    LET ys == [i \in 1..Len(ps) |-> NumToString(getFullYear(ps[i].date))]
        keys == MapKeys(ys)
        counts == [k \in 1..Len(keys) |->
                      Cardinality({i \in 1..Len(ys) : ys[i] = keys[k]})]
    IN  keys[SortDescOrder(counts)[1]]

\* the loop of buildYearSections over the first n map entries
RECURSIVE YearLoop(_, _)
YearLoop(termToPosts, n) ==
    IF n = 0 THEN <<>>
    ELSE LET prev == YearLoop(termToPosts, n - 1)
             cls == termToPosts[n].id
             ps == termToPosts[n].ps
             year == ModeYear(ps)
             current == year = NumToString(CurrentYear)
         IN  IF Len(ps) < MinSectionSize THEN prev
             ELSE Append(prev,
                    [key |-> <<"y", "e", "a", "r", "-">> \o cls,
                     label |-> IF current THEN <<"ar_alef_hamza_below", "ar_sad", "ar_dal", "ar_alef", "ar_reh", "ar_alef", "ar_teh", " ">> \o year
                               ELSE <<"ar_alef_hamza_above", "ar_feh", "ar_lam", "ar_alef", "ar_meem", " ">> \o year,
                     emoji |-> IF current THEN "calendar" ELSE "spiral-calendar",
                     posts |-> sliceTo(ps, MaxSectionPosts)])

buildYearSections(posts) ==
    LET isYearTag(c) == startsWith(c, <<"r", "e", "l", "e", "a", "s", "e", "-", "y", "e", "a", "r", "-">>)
                        /\ AllDigits(sliceFrom(c, 13))
        KeyOf(p) ==
            LET cl == safeClassList(p)
                hits == {i \in 1..Len(cl) : isYearTag(cl[i].s)}
            IN  IF hits = {} THEN <<>>
                ELSE cl[CHOOSE i \in hits : \A j \in hits : i <= j].s
        termToPosts == GroupBy(posts, [i \in 1..Len(posts) |-> KeyOf(posts[i])])
        sections == YearLoop(termToPosts, Len(termToPosts))
        order == SortDescOrder([i \in 1..Len(sections) |->
                                   LabelYear(sections[i].label)])
    IN  [k \in 1..Len(sections) |-> sections[order[k]]]

---------------------------------------------------------------------------
(* deduplicateSections (apiUtils.ts:431-445).                               *)

\* s.posts.filter(...) with the shared seen set: [posts, seen]
RECURSIVE FilterSeen(_, _)
FilterSeen(ps, seen) ==
    IF ps = <<>> THEN [posts |-> <<>>, seen |-> seen]
    ELSE LET front == FilterSeen(SubSeq(ps, 1, Len(ps) - 1), seen)
             p == ps[Len(ps)]
         IN  IF p.id \in front.seen THEN front
             ELSE [posts |-> Append(front.posts, p),
                   seen |-> front.seen \cup {p.id}]

\* the map with a fresh seen set for every section
RECURSIVE DedupMap_FreshSeen(_, _)
DedupMap_FreshSeen(sections, n) ==
    IF n = 0 THEN [sections |-> <<>>, seen |-> {}]
    ELSE LET prev == DedupMap_FreshSeen(sections, n - 1)
             f == FilterSeen(sections[n].posts, {})
         IN  [sections |-> Append(prev.sections,
                               [sections[n] EXCEPT !.posts = f.posts]),
              seen |-> f.seen]

\* sections.map(...) over the first n sections: [sections, seen]
RECURSIVE DedupMap(_, _)
DedupMap(sections, n) ==
    IF n = 0 THEN [sections |-> <<>>, seen |-> {}]
    ELSE LET prev == DedupMap(sections, n - 1)
             f == FilterSeen(sections[n].posts, prev.seen)
         IN  [sections |-> Append(prev.sections,
                               [sections[n] EXCEPT !.posts = f.posts]),
              seen |-> f.seen]

\* deduplicateSections without the final filter on empty sections
deduplicateSections_KeepEmpty(sections) ==
    DedupMap(sections, Len(sections)).sections

deduplicateSections(sections) ==
    SelectSeq(DedupMap(sections, Len(sections)).sections,
              LAMBDA s : Len(s.posts) > 0)

---------------------------------------------------------------------------
(* Inputs.                                                                  *)

\* all sequences over S of length at most n
RECURSIVE SeqsUpTo(_, _)
SeqsUpTo(S, n) ==
    IF n = 0 THEN {<<>>}
    ELSE LET shorter == SeqsUpTo(S, n - 1)
         IN  shorter \cup {Append(q, x) : q \in shorter, x \in S}

Str(s) == [str |-> TRUE, s |-> s]
NotAString == [str |-> FALSE, s |-> <<>>]

Tag_series_romance == <<"s", "e", "r", "i", "e", "s", "-", "r", "o", "m", "a", "n", "c", "e">>
Tag_series_12 == <<"s", "e", "r", "i", "e", "s", "-", "1", "2">>
Tag_country_1 == <<"c", "o", "u", "n", "t", "r", "y", "-", "1">>

ClassifierTags == {Tag_series_romance, Tag_series_12, Tag_country_1}

ClassifierTitles == {
    <<"F", "i", "l", "m">>,
    <<"S", "0", "1", "E", "0", "2">>,
    <<"s", "h", "o", "w", " ", "s", "1", "e", "2", " ", "h", "d">>,
    <<"S", "1", "2", "3", "E", "4">>,
    <<"E", "p", ".", " ", "5">>,
    <<"D", "e", "e", "p", " ", "5">>,
    <<"E", "p", "i", "s", "o", "d", "e", " ", "3">>,
    <<"E", "p", "i", "s", "o", "d", "e">>,
    <<"S", "e", "a", "s", "o", "n", " ", "2">>,
    <<"ar_alef", "ar_lam", "ar_hah", "ar_lam", "ar_qaf", "ar_teh_marbuta", " ", "5">>,
    <<"ar_hah", "ar_lam", "ar_qaf", "ar_teh_marbuta", " ", "5">>,
    <<"ar_hah", "ar_lam", "ar_qaf", "ar_heh", " ", "5">>,
    <<"ar_meem", "ar_sheen", "ar_alef", "ar_heh", "ar_dal", "ar_teh_marbuta", " ", "ar_hah", "ar_lam", "ar_qaf", "ar_teh_marbuta">>,
    <<"ar_meem", "ar_waw", "ar_seen", "ar_meem", " ", "2">>,
    <<"S", "0", "1", "<", "i", ">", "E", "0", "2">>,
    <<"<", "S", "0", "1", "E", "0", "2", ">">>,
    <<"&", "#", "8", "3", ";", "0", "1", "E", "0", "2">> }

ClassifierClassLists ==
    {[shape |-> "array", items |-> [i \in 1..Len(q) |-> Str(q[i])]] :
        q \in SeqsUpTo(ClassifierTags, MaxTags)}
    \cup {[shape |-> "absent", items |-> <<>>],
          [shape |-> "scalar", items |-> <<>>],
          [shape |-> "object", items |-> <<NotAString, Str(Tag_series_romance)>>],
          [shape |-> "object", items |-> <<NotAString, Str(Tag_series_12)>>]}

Cat_Turkish == [id |-> 5, name |-> <<"T", "u", "r", "k", "i", "s", "h", " ", "D", "r", "a", "m", "a", "s">>, count |-> 12,
                slug |-> <<"t", "u", "r", "k", "i", "s", "h", "-", "d", "r", "a", "m", "a", "s">>]
Cat_KoreanSeries == [id |-> 6, name |-> <<"ar_meem", "ar_seen", "ar_lam", "ar_seen", "ar_lam", "ar_alef", "ar_teh", " ", "ar_kaf", "ar_waw", "ar_reh", "ar_yeh", "ar_teh_marbuta">>, count |-> 8,
                     slug |-> <<"k", "o", "r", "e", "a", "n", "-", "s", "e", "r", "i", "e", "s">>]
Cat_TvSeries == [id |-> 7, name |-> <<"T", "V", " ", "S", "E", "R", "I", "E", "S">>, count |-> 5,
                 slug |-> <<"t", "v", "-", "s", "e", "r", "i", "e", "s">>]
Cat_Uncategorized == [id |-> 8, name |-> <<"U", "n", "c", "a", "t", "e", "g", "o", "r", "i", "z", "e", "d">>, count |-> 3,
                      slug |-> <<"u", "n", "c", "a", "t", "e", "g", "o", "r", "i", "z", "e", "d">>]

Categories == {Cat_Turkish, Cat_KoreanSeries, Cat_TvSeries, Cat_Uncategorized}
CatLists == SeqsUpTo(Categories, MaxCats)

\* the category lists fetched while posts are classified
ClassifierCatLists == {<<Cat_Turkish, Cat_KoreanSeries>>, <<Cat_TvSeries>>}

ClassifierPosts ==
    {[id |-> 1, title |-> t, date |-> 2024, categories |-> c, class_list |-> cl] :
        t \in ClassifierTitles,
        c \in {<<>>, <<SeedSeriesCatId>>, <<6>>},
        cl \in ClassifierClassLists}

\* no isSeries call yet; known is the registry at the time of the call
NoVerdict == [done |-> FALSE, series |-> FALSE, movie |-> FALSE, known |-> {}]

\* posts for the section builders
Arr(tags) == [shape |-> "array", items |-> [i \in 1..Len(tags) |-> Str(tags[i])]]

SP1 == [id |-> 1, title |-> <<"F", "i", "l", "m">>, date |-> 2024, categories |-> <<5, 6>>,
        class_list |-> Arr(<<<<"c", "o", "u", "n", "t", "r", "y", "-", "1", "6", "3", "2", "8">>, <<"l", "a", "n", "g", "u", "a", "g", "e", "-", "6", "0", "6">>,
                             <<"r", "e", "l", "e", "a", "s", "e", "-", "y", "e", "a", "r", "-", "1", "2">>>>)]
SP2 == [id |-> 2, title |-> <<"F", "i", "l", "m", " ", "2">>, date |-> 2024, categories |-> <<5>>,
        class_list |-> Arr(<<<<"c", "o", "u", "n", "t", "r", "y", "-", "1", "6", "3", "2", "8">>, <<"l", "a", "n", "g", "u", "a", "g", "e", "-", "6", "0", "6">>,
                             <<"r", "e", "l", "e", "a", "s", "e", "-", "y", "e", "a", "r", "-", "1", "2">>>>)]
SP3 == [id |-> 3, title |-> <<"S", "0", "1", "E", "0", "2">>, date |-> 2023, categories |-> <<6, 8>>,
        class_list |-> [shape |-> "object",
                        items |-> <<Str(<<"l", "a", "n", "g", "u", "a", "g", "e", "-", "6", "0", "6">>), NotAString,
                                    Str(<<"r", "e", "l", "e", "a", "s", "e", "-", "y", "e", "a", "r", "-", "1", "2">>)>>]]
SP4 == [id |-> 4, title |-> <<"F", "i", "l", "m", " ", "4">>, date |-> 2026, categories |-> <<8>>,
        class_list |-> Arr(<<<<"c", "o", "u", "n", "t", "r", "y", "-", "7", "7">>, <<"l", "a", "n", "g", "u", "a", "g", "e", "-", "5", "9", "5">>,
                             <<"r", "e", "l", "e", "a", "s", "e", "-", "y", "e", "a", "r", "-", "2", "6">>>>)]

SP5 == [id |-> 5, title |-> <<"F", "i", "l", "m", " ", "5">>, date |-> 2026, categories |-> <<5>>,
        class_list |-> Arr(<<<<"c", "o", "u", "n", "t", "r", "y", "-", "7", "7">>, <<"l", "a", "n", "g", "u", "a", "g", "e", "-", "5", "9", "5">>,
                             <<"r", "e", "l", "e", "a", "s", "e", "-", "y", "e", "a", "r", "-", "2", "6">>>>)]

\* two posts of a country and of a language that the metadata tables lack
SP7 == [id |-> 7, title |-> <<"F", "i", "l", "m", " ", "7">>, date |-> 2026, categories |-> <<5>>,
        class_list |-> Arr(<<<<"c", "o", "u", "n", "t", "r", "y", "-", "7", "7">>, <<"l", "a", "n", "g", "u", "a", "g", "e", "-", "9", "9", "9">>,
                             <<"r", "e", "l", "e", "a", "s", "e", "-", "y", "e", "a", "r", "-", "2", "6">>>>)]

SP8 == [SP7 EXCEPT !.id = 8, !.title = <<"F", "i", "l", "m", " ", "8">>]

SectionPosts == {SP1, SP2, SP3, SP4}

\* lists holding two groups of different sizes and years
TwoGroupFeeds == {<<SP1, SP2, SP4, SP5>>, <<SP4, SP5, SP1, SP2, SP3>>}

\* a list holding a group of an unlisted country and language
UnlistedIdFeeds == {<<SP7, SP8, SP1, SP2>>}

\* n posts of one country, language, category and year tag, with distinct ids
LongFeed(n) == [i \in 1..n |-> [SP1 EXCEPT !.id = 10 + i]]

Feeds ==
    SeqsUpTo(SectionPosts, MaxFeed)
    \cup {LongFeed(n) \o q : n \in (MaxSectionPosts - 1)..MaxLong,
                             q \in SeqsUpTo(SectionPosts, 1)}
    \cup TwoGroupFeeds
    \cup UnlistedIdFeeds

SectionCats == <<Cat_Turkish, Cat_KoreanSeries, Cat_Uncategorized>>

BuilderKinds == {"country", "language", "category", "category-movies",
                 "cross", "year"}

\* the result of the section builder named kind
RunBuilder(kind, posts, cs, known) ==
    CASE kind = "country" -> buildCountrySections(posts)
      [] kind = "language" -> buildLanguageSections(posts)
      [] kind = "category" -> buildCategorySections(posts, cs, FALSE, known)
      [] kind = "category-movies" -> buildCategorySections(posts, cs, TRUE, known)
      [] kind = "cross" -> buildCrossFilterSections(posts)
      [] kind = "year" -> buildYearSections(posts)

\* the concatenation of the builder results, in call order
RECURSIVE Concat(_)
Concat(bs) ==
    IF bs = <<>> THEN <<>> ELSE Concat(SubSeq(bs, 1, Len(bs) - 1)) \o bs[Len(bs)].out

---------------------------------------------------------------------------
(* The list screen (src/app/(tabs)/list.tsx): category tabs, each with its  *)
(* own paginated post list. Of a post the pagination code reads the id      *)
(* only, so a post of this screen is the record of its id. A state update   *)
(* setTabStates(prev => ...) is applied to the latest state, in call order. *)

MaxListIds == 2     \* distinct post ids the remote serves to the list screen
MaxPagePosts == 1   \* posts in one page of a fetchPage result
MaxPageNo == 2      \* highest page number requested
MaxInFlight == 2    \* fetchPage calls of the list screen in flight together

\* emojiForCat of list.tsx
emojiForCat(name) ==
    LET n == toLowerCase(name)
    IN  IF includes(n, <<"ar_teh", "ar_reh", "ar_kaf", "ar_yeh">>) \/ includes(n, <<"t", "u", "r", "k">>) THEN "flag-tr"
        ELSE IF includes(n, <<"ar_kaf", "ar_waw", "ar_reh", "ar_yeh">>) \/ includes(n, <<"k", "o", "r", "e", "a", "n">>) THEN "flag-kr"
        ELSE IF includes(n, <<"ar_heh", "ar_noon", "ar_dal", "ar_yeh">>) \/ includes(n, <<"h", "i", "n", "d", "i">>) THEN "flag-in"
        ELSE IF includes(n, <<"ar_ain", "ar_reh", "ar_beh", "ar_yeh">>) \/ includes(n, <<"a", "r", "a", "b">>) THEN "globe-africa"
        ELSE IF \/ includes(n, <<"ar_alef_hamza_above", "ar_jeem", "ar_noon", "ar_beh", "ar_yeh">>)
                \/ includes(n, <<"f", "o", "r", "e", "i", "g", "n">>)
                \/ includes(n, <<"e", "n", "g", "l", "i", "s", "h">>) THEN "globe-meridians"
        ELSE IF includes(n, <<"ar_alef_hamza_above", "ar_noon", "ar_meem", "ar_yeh">>) \/ includes(n, <<"a", "n", "i", "m", "e">>) THEN "crossed-flags"
        ELSE IF includes(n, <<"ar_meem", "ar_seen", "ar_lam", "ar_seen", "ar_lam">>) \/ includes(n, <<"s", "e", "r", "i", "e", "s">>) THEN "television"
        ELSE IF includes(n, <<"ar_feh", "ar_yeh", "ar_lam", "ar_meem">>) \/ includes(n, <<"m", "o", "v", "i", "e">>) THEN "clapper"
        ELSE IF includes(n, <<"ar_reh", "ar_ain", "ar_beh">>) \/ includes(n, <<"h", "o", "r", "r", "o", "r">>) THEN "ghost"
        ELSE IF includes(n, <<"ar_kaf", "ar_waw", "ar_meem", "ar_yeh", "ar_dal">>) \/ includes(n, <<"c", "o", "m", "e", "d", "y">>) THEN "joy"
        ELSE IF includes(n, <<"ar_reh", "ar_waw", "ar_meem", "ar_alef", "ar_noon", "ar_seen">>) \/ includes(n, <<"r", "o", "m", "a", "n", "c", "e">>) THEN "hearts"
        ELSE IF includes(n, <<"ar_alef_hamza_above", "ar_kaf", "ar_sheen", "ar_noon">>) \/ includes(n, <<"a", "c", "t", "i", "o", "n">>) THEN "collision"
        ELSE "television"

\* categoryId is <<>> for null and <<id>> for a category id
Tab_all == [key |-> <<"a", "l", "l">>, label |-> <<"ar_alef", "ar_lam", "ar_kaf", "ar_lam">>, emoji |-> "clapper",
            categoryId |-> <<>>]

buildTabs(cs) ==
    LET kept == SelectSeq(cs, LAMBDA cat :
                    /\ cat.count >= 3
                    /\ LET n == toLowerCase(cat.name)
                       IN  /\ ~includes(n, <<"u", "n", "c", "a", "t", "e", "g", "o", "r">>)
                           /\ ~includes(n, <<"ar_ghain", "ar_yeh", "ar_reh", " ", "ar_meem", "ar_sad", "ar_noon", "ar_feh">>))
    IN  <<Tab_all>> \o
        [k \in 1..Len(kept) |->
            [key |-> <<"c", "a", "t", "-">> \o NumToString(kept[k].id),
             label |-> kept[k].name,
             emoji |-> emojiForCat(kept[k].name),
             categoryId |-> <<kept[k].id>>]]

mkTabState == [posts |-> <<>>, page |-> 0, hasMore |-> TRUE, total |-> 0,
               loading |-> FALSE]

\* { ...a, ...b } of two objects
ObjectSpread(a, b) ==
    [f \in (DOMAIN a) \cup (DOMAIN b) |-> IF f \in DOMAIN b THEN b[f] ELSE a[f]]

\* prev[key], the empty object standing for undefined under a spread
TabStateOf(prev, key) == IF key \in DOMAIN prev THEN prev[key] ELSE <<>>

\* { ...prev, [key]: value }
WithKey(prev, key, value) ==
    [k \in (DOMAIN prev) \cup {key} |-> IF k = key THEN value ELSE prev[k]]

\* the updater of patchTabState(key, patch), applied to prev
patchTabState(prev, key, patch) ==
    WithKey(prev, key, ObjectSpread(ObjectSpread(mkTabState, TabStateOf(prev, key)),
                                    patch))

\* tabs.find((t) => t.key === activeKey) ?? tabs[0]; read only when tabs is
\* not empty
activeTab ==
    LET hits == {i \in 1..Len(tabs) : tabs[i].key = activeKey}
    IN  IF hits = {} THEN tabs[1]
        ELSE tabs[CHOOSE i \in hits : \A j \in hits : i <= j]

ListPost(i) == [id |-> i]

\* the pages the remote may answer with: no id twice within one page
PagePosts ==
    {q \in SeqsUpTo({ListPost(i) : i \in 1..MaxListIds}, MaxPagePosts) :
        \A i, j \in 1..Len(q) : q[i].id = q[j].id => i = j}

\* total is the X-WP-Total header, 0 when it is missing
PageResults ==
    {[posts |-> q, hasMore |-> h, total |-> IF q = <<>> THEN 0 ELSE MaxListIds] :
        q \in PagePosts, h \in BOOLEAN}

\* the pages the remote may answer a fetchPage call of the tab with: the
\* category of a category tab holds one post
PageResultsFor(tab) ==
    IF tab.categoryId = <<>> THEN PageResults
    ELSE {[posts |-> <<ListPost(1)>>, hasMore |-> FALSE, total |-> 1]}

\* the category lists fetchCategories may answer boot() with
ListCatLists == {<<Cat_KoreanSeries, Cat_Uncategorized>>, <<>>}

\* the fetchPage(1, PER_PAGE, params) call of loadFirstPage(tab, force); the
\* caller of a forced call resets refreshing when the call settles
\* (stale is not in the code: it records that the user has pulled to
\* refresh the tab since the call was made)
FirstPageFetch(tab, force) ==
    [kind |-> "first", tab |-> tab, page |-> 1, state |-> mkTabState,
     force |-> force, stale |-> FALSE]

\* the fetchPage(nextPage, PER_PAGE, params) call of loadNextPage(tab), with
\* the state object its closure holds
NextPageFetch(tab, state) ==
    [kind |-> "next", tab |-> tab, page |-> state.page + 1, state |-> state,
     force |-> FALSE, stale |-> FALSE]

\* the calls in flight pf, those for the tab named key recorded as made
\* before a refresh of the tab
BeforeRefresh(pf, key) ==
    LET old(r) == IF r.tab.key = key THEN [r EXCEPT !.stale = TRUE] ELSE r
        count(m) == IF m \in DOMAIN pf THEN pf[m] ELSE 0
    IN  [m \in {old(r) : r \in BagToSet(pf)} |->
            IF m.tab.key = key
            THEN count(m) + count([m EXCEPT !.stale = FALSE])
            ELSE count(m)]

\* the fetchPage calls in flight for the tab named key
FetchesFor(key) == {r \in BagToSet(pageFetches) : r.tab.key = key}

\* the screen before it is mounted
ListUnmounted ==
    /\ tabs = <<>>
    /\ activeKey = <<"a", "l", "l">>
    /\ tabStates = <<>>
    /\ initialLoading = TRUE
    /\ refreshing = FALSE
    /\ loadedRef = {}
    /\ bootPc = "unmounted"
    /\ pageFetches = EmptyBag

---------------------------------------------------------------------------
(* The series screen (src/app/(tabs)/series.tsx): two pinned sections and   *)
(* one lazily fetched section per series category. The field load of a      *)
(* section and of a fetch is not program state: it numbers the load() call  *)
(* the data was fetched by.                                                 *)

MaxLoads == 2       \* load() calls of one run of the series screen

\* SERIES_KEYWORDS of series.tsx
SeriesScreenKeywords == <<
    <<"ar_meem", "ar_seen", "ar_lam", "ar_seen", "ar_lam">>, <<"ar_meem", "ar_seen", "ar_lam", "ar_seen", "ar_lam", "ar_alef", "ar_teh">>, <<"s", "e", "r", "i", "e", "s">>, <<"e", "p", "i", "s", "o", "d", "e">>,
    <<"ar_hah", "ar_lam", "ar_qaf", "ar_teh_marbuta">>, <<"ar_hah", "ar_lam", "ar_qaf", "ar_alef", "ar_teh">>, <<"ar_meem", "ar_waw", "ar_seen", "ar_meem">>, <<"s", "e", "a", "s", "o", "n">> >>

\* emojiForCat of series.tsx
SeriesEmojiForCat(name) ==
    LET n == toLowerCase(name)
    IN  IF includes(n, <<"ar_teh", "ar_reh", "ar_kaf", "ar_yeh">>) \/ includes(n, <<"t", "u", "r", "k">>) THEN "flag-tr"
        ELSE IF includes(n, <<"ar_kaf", "ar_waw", "ar_reh", "ar_yeh">>) \/ includes(n, <<"k", "o", "r", "e", "a", "n">>) THEN "flag-kr"
        ELSE IF includes(n, <<"ar_heh", "ar_noon", "ar_dal", "ar_yeh">>) \/ includes(n, <<"h", "i", "n", "d", "i">>) THEN "flag-in"
        ELSE IF includes(n, <<"ar_ain", "ar_reh", "ar_beh", "ar_yeh">>) \/ includes(n, <<"a", "r", "a", "b">>) THEN "globe-africa"
        ELSE IF \/ includes(n, <<"ar_alef_hamza_above", "ar_jeem", "ar_noon", "ar_beh", "ar_yeh">>)
                \/ includes(n, <<"f", "o", "r", "e", "i", "g", "n">>)
                \/ includes(n, <<"e", "n", "g", "l", "i", "s", "h">>) THEN "globe-meridians"
        ELSE IF includes(n, <<"ar_alef_hamza_above", "ar_noon", "ar_meem", "ar_yeh">>) \/ includes(n, <<"a", "n", "i", "m", "e">>) THEN "crossed-flags"
        ELSE IF includes(n, <<"ar_meem", "ar_seen", "ar_lam", "ar_seen", "ar_lam">>) \/ includes(n, <<"s", "e", "r", "i", "e", "s">>) THEN "television"
        ELSE IF includes(n, <<"ar_feh", "ar_yeh", "ar_lam", "ar_meem">>) \/ includes(n, <<"m", "o", "v", "i", "e">>) THEN "clapper"
        ELSE IF includes(n, <<"ar_reh", "ar_ain", "ar_beh">>) \/ includes(n, <<"h", "o", "r", "r", "o", "r">>) THEN "ghost"
        ELSE IF includes(n, <<"ar_kaf", "ar_waw", "ar_meem", "ar_yeh", "ar_dal">>) \/ includes(n, <<"c", "o", "m", "e", "d", "y">>) THEN "joy"
        ELSE IF includes(n, <<"ar_reh", "ar_waw", "ar_meem", "ar_alef", "ar_noon", "ar_seen">>) \/ includes(n, <<"r", "o", "m", "a", "n", "c", "e">>) THEN "hearts"
        ELSE IF includes(n, <<"ar_alef_hamza_above", "ar_kaf", "ar_sheen", "ar_noon">>) \/ includes(n, <<"a", "c", "t", "i", "o", "n">>) THEN "collision"
        ELSE "television"

\* addSection without the test of the key set
addSection_NoKeyTest(secs, seen, sec) ==
    IF Len(sec.posts) < 2
    THEN [sections |-> secs, seenKeys |-> seen]
    ELSE [sections |-> Append(secs, sec), seenKeys |-> seen \cup {sec.key}]

\* addSection(sec) on the list secs and the key set seen: [sections, seenKeys]
addSection(secs, seen, sec) ==
    IF sec.key \in seen \/ Len(sec.posts) < 2
    THEN [sections |-> secs, seenKeys |-> seen]
    ELSE [sections |-> Append(secs, sec), seenKeys |-> seen \cup {sec.key}]

\* the two pinned sections of load(), from the fetched lists
LatestSection(latest, n) ==
    [key |-> <<"l", "a", "t", "e", "s", "t">>, label |-> <<"ar_alef_hamza_above", "ar_hah", "ar_dal", "ar_theh", " ", "ar_alef", "ar_lam", "ar_hah", "ar_lam", "ar_qaf", "ar_alef", "ar_teh">>, emoji |-> "new",
     posts |-> sliceTo(SelectSeq(latest, isSeries), 10), load |-> n]

TrendingSection(trending, n) ==
    [key |-> <<"t", "r", "e", "n", "d", "i", "n", "g">>, label |-> <<"ar_alef", "ar_lam", "ar_alef_hamza_above", "ar_kaf", "ar_theh", "ar_reh", " ", "ar_teh", "ar_hah", "ar_dal", "ar_yeh", "ar_theh", "arabic_fathatan", "ar_alef">>, emoji |-> "fire",
     posts |-> sliceTo(SelectSeq(trending, isSeries), 10), load |-> n]

\* the section of one background category response
CategorySection(cat, posts, n) ==
    [key |-> <<"c", "a", "t", "-">> \o NumToString(cat.id), label |-> cat.name,
     emoji |-> SeriesEmojiForCat(cat.name), posts |-> posts, load |-> n]

\* step 3 of load(): the categories fetched in the background
seriesCats(cs) ==
    SelectSeq(cs, LAMBDA cat :
        /\ cat.count >= 3
        /\ LET n == toLowerCase(cat.name)
           IN  /\ ~includes(n, <<"u", "n", "c", "a", "t", "e", "g", "o", "r">>)
               /\ ~includes(n, <<"ar_ghain", "ar_yeh", "ar_reh", " ", "ar_meem", "ar_sad", "ar_noon", "ar_feh">>)
               /\ \E k \in 1..Len(SeriesScreenKeywords) :
                      includes(n, SeriesScreenKeywords[k]))

SP6 == [id |-> 6, title |-> <<"S", "h", "o", "w">>, date |-> 2025, categories |-> <<6>>,
        class_list |-> Arr(<<<<"s", "e", "r", "i", "e", "s", "-", "r", "o", "m", "a", "n", "c", "e">>>>)]

\* what Promise.all of load() may resolve to
PinnedResults ==
    {[latest |-> l, trending |-> t, cats |-> c] :
        l \in {<<SP1, SP3, SP6>>, <<SP3>>},
        t \in {<<SP6, SP3>>, <<>>},
        c \in {<<Cat_KoreanSeries, Cat_TvSeries, Cat_Uncategorized>>, <<Cat_Turkish>>}}

\* the posts a background fetchPage(1, 10, {categories}) may resolve to
CategoryResults == {<<SP3, SP6>>, <<SP6, SP3>>}

\* the screen before it is mounted
SeriesUnmounted ==
    /\ seriesSections = <<>>
    /\ loading = TRUE
    /\ error = FALSE
    /\ seriesRefreshing = FALSE
    /\ seenKeys = {}
    /\ loadCount = 0
    /\ pinnedFetches = {}
    /\ categoryFetches = {}

---------------------------------------------------------------------------
(* withRetry (apiUtils.ts:50-61): one call withRetry(fn) with the default   *)
(* retries. The fields calls, errors and waited log what the call did: the  *)
(* fn() calls made, the errors they threw and the setTimeout delays.        *)

Retries == 2        \* the default of the parameter retries
RetryDelay == 800   \* milliseconds, multiplied by the attempt number

RetryErrors == {"network", "timeout", "http-500", "http-429"}
RetryValues == {"posts", "no-posts"}

RetryIdle == [status |-> "idle", i |-> 0, lastErr |-> "none", calls |-> 0,
              errors |-> <<>>, waited |-> <<>>, result |-> "none"]

\* a wait of the same length after every failure
RetryWait_Flat(i) == RetryDelay

\* 800 * (i + 1), the setTimeout delay after the failure of attempt i
RetryWait(i) == RetryDelay * (i + 1)

---------------------------------------------------------------------------
(* Calls of the marker-tag helpers on one post whose class_list may hold    *)
(* entries that are not strings.  x.startsWith on an entry that is not a    *)
(* string is a TypeError, which the helper does not catch.                  *)

MaxEntries == 2     \* longest class_list handed to the tag helpers

Tag_country_22 == <<"c", "o", "u", "n", "t", "r", "y", "-", "2", "2">>
Tag_country_empty == <<"c", "o", "u", "n", "t", "r", "y", "-">>
Tag_country_x1 == <<"c", "o", "u", "n", "t", "r", "y", "-", "x", "1">>

\* the entries a class_list is made of: marker tags and one non-string
TagEntries == {Str(Tag_country_1), Str(Tag_country_22), Str(Tag_country_empty),
               Str(Tag_country_x1), Str(Tag_series_romance), Str(Tag_series_12),
               NotAString}

TagClassLists ==
    {[shape |-> sh, items |-> q] :
        sh \in {"array", "object"}, q \in SeqsUpTo(TagEntries, MaxEntries)}
    \cup {[shape |-> "absent", items |-> <<>>],
          [shape |-> "scalar", items |-> <<>>]}

TagPosts ==
    {[id |-> 1, title |-> t, date |-> 2024, categories |-> <<>>, class_list |-> cl] :
        t \in {<<"F", "i", "l", "m">>, <<"S", "0", "1", "E", "0", "2">>}, cl \in TagClassLists}

TagPrefixes == {<<"c", "o", "u", "n", "t", "r", "y">>, <<"s", "e", "r", "i", "e", "s">>}

\* outcomes of a call
NotCalled == [called |-> FALSE, threw |-> FALSE, value |-> <<>>]
Returned(v) == [called |-> TRUE, threw |-> FALSE, value |-> v]
Threw == [called |-> TRUE, threw |-> TRUE, value |-> <<>>]

\* classList.some(c => c.startsWith("series-") && ...) reaches an entry
\* that is not a string before an entry that satisfies the test
isSeriesThrows(p) ==
    LET classList == safeClassList(p)
    IN  \E i \in 1..Len(classList) :
            /\ ~classList[i].str
            /\ \A j \in 1..(i - 1) : ~SeriesSlugTag(classList[j].s)

\* safeClassList(post).find(x => x.startsWith(...) && ...) reaches an entry
\* that is not a string before an entry that satisfies the test
getClassThrows(p, prefix) ==
    LET cl == safeClassList(p)
    IN  \E i \in 1..Len(cl) :
            /\ ~cl[i].str
            /\ getClass([p EXCEPT !.class_list.items = SubSeq(cl, 1, i - 1),
                                  !.class_list.shape = "array"], prefix) = <<>>

NoTagRead == [classList |-> NotCalled, prefix |-> <<>>, found |-> NotCalled,
              series |-> NotCalled, movie |-> NotCalled]

TagsIdle == tagPost = SP1 /\ tagRead = NoTagRead

MaxFragments == 3   \* pieces a title handed to cleanTitle is made of

\* pieces of markup and of entities, whole and split
TitleFragments == {<<"&", "a", "m", "p", ";">>, <<"a", "m", "p", ";">>, <<"l", "t", ";">>, <<"#", "6", "0", ";">>, <<"&", "#", "3", "8", ";">>, <<"&", "l", "t", ";">>,
                   <<"i", "&", "g", "t", ";">>, <<"x">>}

RECURSIVE Flatten(_)
Flatten(q) == IF q = <<>> THEN <<>> ELSE Head(q) \o Flatten(Tail(q))

RawTitles == {Flatten(q) : q \in SeqsUpTo(TitleFragments, MaxFragments)}

NotCleaned == [calls |-> 0, once |-> <<>>, twice |-> <<>>]

TitlesIdle == rawTitle = <<>> /\ cleaned = NotCleaned

\* the state of the data layer before any of its functions is called
LibIdle ==
    /\ KNOWN_SERIES_CAT_IDS = {SeedSeriesCatId}
    /\ cats = <<>>
    /\ post = SP1
    /\ verdict = NoVerdict
    /\ feed = <<>>
    /\ built = <<>>
    /\ dedupIn = <<>>
    /\ shown = <<>>
    /\ deduped = FALSE

MaxTotalPages == 3  \* largest X-WP-TotalPages the remote reports

CategoriesPerPage == 100

\* the header of the first response: missing, or a page count
TotalPagesHeaders ==
    {[present |-> FALSE, value |-> 0]}
    \cup {[present |-> TRUE, value |-> n] : n \in 0..MaxTotalPages}

\* numbers of category records one response carries
PageSizes == {0, 40, CategoriesPerPage}

\* parseInt(headers["x-wp-totalpages"] ?? "1", 10)
ParseTotalPages(h) == IF h.present THEN h.value ELSE 1

\* try counts attempts of withRetry; sent are the page numbers requested in
\* this attempt, got the answers received, result the returned list as the
\* page and size of each of its chunks
CatFetchIdle == [pc |-> "idle", try |-> 0, totalPages |-> 0, sent |-> {},
                 got |-> {}, result |-> <<>>]

CatFetchStart(try) == [pc |-> "first", try |-> try, totalPages |-> 0, sent |-> {1},
                       got |-> {}, result |-> <<>>]

\* [...firstRes.data, ...extras.flat()]: the answers to the pages 1..n in
\* page order, whatever the order they arrived in
RECURSIVE InPageOrder(_, _)
InPageOrder(got, n) ==
    IF n = 0 THEN <<>>
    ELSE Append(InPageOrder(got, n - 1), CHOOSE a \in got : a.page = n)

\* The movies screen (index.tsx:207-339).

MaxSectionLoads == 2    \* loadAllSections calls in flight at a time

MOVIES_CATEGORY == 79
SECTIONS_COUNT == 8

Term_Movies == [id |-> MOVIES_CATEGORY, name |-> <<"M", "o", "v", "i", "e", "s">>, count |-> 50]
Term_Empty == [id |-> 9, name |-> <<"D", "r", "a", "m", "a">>, count |-> 0]

\* the term lists the remote answers fetchTerms with
TermLists == {<<Cat_Turkish, Cat_KoreanSeries, Cat_TvSeries>>,
              <<Cat_Turkish, Term_Movies, Cat_Uncategorized, Term_Empty>>,
              <<>>}

pickGoodTerms(terms) ==
    sliceTo(SelectSeq(terms, LAMBDA t :
                /\ t.name # <<>>
                /\ t.id # 0
                /\ t.count > 0
                /\ t.id # MOVIES_CATEGORY
                /\ ~includes(toLowerCase(t.name), <<"u", "n", "c", "a", "t", "e", "g", "o", "r", "i", "z", "e", "d">>)
                /\ ~includes(toLowerCase(t.name), <<"ar_ghain", "ar_yeh", "ar_reh", " ", "ar_meem", "ar_sad", "ar_noon", "ar_feh">>)),
            30)

\* goodTerms.slice(0, SECTIONS_COUNT).map(t => ({id, title}))
SectionsOf(terms) ==
    LET good == sliceTo(pickGoodTerms(terms), SECTIONS_COUNT)
    IN  [k \in 1..Len(good) |-> [id |-> good[k].id, title |-> good[k].name]]

\* the orderby parameter of fetchPostsForSection for the mode m
OrderBy(m) == IF m = "latest" THEN "date" ELSE "modified"

\* the answer to fetchPostsForSection(modeTax, termId, m): the posts the
\* remote lists for the term in the requested order
SectionPostsFor(modeTax, termId, m) ==
    [taxonomy |-> modeTax, term |-> termId, orderby |-> OrderBy(m)]

\* one loadAllSections(modeTax, secs, m) call; init awaits the call it makes
SectionLoad(modeTax, secs, m, byInit) ==
    [modeTax |-> modeTax, secs |-> secs, m |-> m, byInit |-> byInit]

\* the map loadAllSections builds from the answers
SectionMap(r) ==
    [id \in {r.secs[k].id : k \in 1..Len(r.secs)} |->
        SectionPostsFor(r.modeTax, id, r.m)]

MoviesUnmounted ==
    /\ movieMode = "latest"
    /\ taxMode = "null"
    /\ movieSections = <<>>
    /\ postsBySection = <<>>
    /\ moviesLoading = TRUE
    /\ initPc = "unmounted"
    /\ sectionLoads = EmptyBag

RestIdle == TagsIdle /\ TitlesIdle /\ catFetch = CatFetchIdle /\ MoviesUnmounted

---------------------------------------------------------------------------
(* Operations.                                                              *)

\* discoverSeriesCategories(c)
Discover(c) ==
    /\ KNOWN_SERIES_CAT_IDS' = discoverSeriesCategories(KNOWN_SERIES_CAT_IDS, c)
    /\ cats' = c
    /\ UNCHANGED <<post, verdict, feed, built, dedupIn, shown, deduped>>
    /\ UNCHANGED screenVars

\* isSeries(post) and isMovie(post)
Classify ==
    /\ verdict' = [done |-> TRUE, series |-> isSeries(post), movie |-> isMovie(post),
                   known |-> KNOWN_SERIES_CAT_IDS]
    /\ UNCHANGED <<KNOWN_SERIES_CAT_IDS, cats, post, feed, built, dedupIn, shown,
                   deduped>>
    /\ UNCHANGED screenVars

\* one section builder runs on the feed; its sections join the pending list
\* (cs and known record the category list and the registry the call reads)
Build(kind) ==
    /\ ~deduped
    /\ Len(built) < MaxBuilds
    /\ built' = Append(built,
                       [kind |-> kind,
                        cs |-> IF kind \in {"category", "category-movies"}
                               THEN cats ELSE <<>>,
                        known |-> IF kind = "category-movies"
                                  THEN KNOWN_SERIES_CAT_IDS ELSE {},
                        out |-> RunBuilder(kind, feed, cats, KNOWN_SERIES_CAT_IDS)])
    /\ UNCHANGED <<KNOWN_SERIES_CAT_IDS, cats, post, verdict, feed, dedupIn, shown,
                   deduped>>
    /\ UNCHANGED screenVars

\* deduplicateSections on the pending list
Dedup ==
    /\ ~deduped
    /\ dedupIn' = Concat(built)
    /\ shown' = deduplicateSections(Concat(built))
    /\ deduped' = TRUE
    /\ UNCHANGED <<KNOWN_SERIES_CAT_IDS, cats, post, verdict, feed, built>>
    /\ UNCHANGED screenVars

\* Classifier and registry: any post, any sequence of category scans.
Init ==
    /\ KNOWN_SERIES_CAT_IDS = {SeedSeriesCatId}
    /\ cats = <<>>
    /\ post \in ClassifierPosts
    /\ verdict = NoVerdict
    /\ feed = <<>>
    /\ built = <<>>
    /\ dedupIn = <<>>
    /\ shown = <<>>
    /\ deduped = FALSE
    /\ ListUnmounted
    /\ SeriesUnmounted
    /\ retry = RetryIdle
    /\ RestIdle

Next ==
    \/ \E c \in ClassifierCatLists : Discover(c)
    \/ Classify

Spec == Init /\ [][Next]_vars

\* Section pipeline: builders over a fetched list, then the de-duplicator.
InitSections ==
    /\ KNOWN_SERIES_CAT_IDS = {SeedSeriesCatId}
    /\ cats = <<>>
    /\ post = SP1
    /\ verdict = NoVerdict
    /\ feed \in Feeds
    /\ built = <<>>
    /\ dedupIn = <<>>
    /\ shown = <<>>
    /\ deduped = FALSE
    /\ ListUnmounted
    /\ SeriesUnmounted
    /\ retry = RetryIdle
    /\ RestIdle

NextSections ==
    \/ Discover(SectionCats)
    \/ \E kind \in BuilderKinds : Build(kind)
    \/ Dedup

SpecSections == InitSections /\ [][NextSections]_vars

\* Registry: any sequence of category scans, from any screen.
NextRegistry == \E c \in CatLists : Discover(c)

InitRegistry ==
    /\ KNOWN_SERIES_CAT_IDS = {SeedSeriesCatId}
    /\ cats = <<>>
    /\ post = SP1
    /\ verdict = NoVerdict
    /\ feed = <<>>
    /\ built = <<>>
    /\ dedupIn = <<>>
    /\ shown = <<>>
    /\ deduped = FALSE
    /\ ListUnmounted
    /\ SeriesUnmounted
    /\ retry = RetryIdle
    /\ RestIdle

SpecRegistry == InitRegistry /\ [][NextRegistry]_vars

---------------------------------------------------------------------------
(* Operations of the list screen.                                           *)

\* boot(): fetchCategories() resolves with c; the tabs are built and the
\* first page of the first tab is requested
BootCategories(c) ==
    /\ bootPc = "categories"
    /\ KNOWN_SERIES_CAT_IDS' = discoverSeriesCategories(KNOWN_SERIES_CAT_IDS, c)
    /\ cats' = c
    /\ tabs' = buildTabs(c)
    /\ tabStates' = [k \in {buildTabs(c)[i].key : i \in 1..Len(buildTabs(c))} |->
                        mkTabState]
    /\ loadedRef' = loadedRef \cup {buildTabs(c)[1].key}
    /\ bootPc' = "page"
    /\ UNCHANGED <<activeKey, initialLoading, refreshing, pageFetches>>
    /\ UNCHANGED <<post, verdict, feed, built, dedupIn, shown, deduped>>
    /\ UNCHANGED <<seriesVars, retry, restVars>>

\* boot(): fetchPage(1) of the first tab resolves with res
BootPage(res) ==
    /\ bootPc = "page"
    /\ tabStates' = WithKey(tabStates, tabs[1].key,
                            [posts |-> res.posts, page |-> 1,
                             hasMore |-> res.hasMore, total |-> res.total,
                             loading |-> FALSE])
    /\ initialLoading' = FALSE
    /\ refreshing' = FALSE
    /\ bootPc' = "done"
    /\ UNCHANGED <<tabs, activeKey, loadedRef, pageFetches>>
    /\ UNCHANGED <<libVars, seriesVars, retry, restVars>>

\* boot(): fetchCategories() or fetchPage(1) rejects (catch, finally)
BootFails ==
    /\ bootPc \in {"categories", "page"}
    /\ initialLoading' = FALSE
    /\ refreshing' = FALSE
    /\ bootPc' = "done"
    /\ UNCHANGED <<tabs, activeKey, tabStates, loadedRef, pageFetches>>
    /\ UNCHANGED <<libVars, seriesVars, retry, restVars>>

\* loadFirstPage(tab, force) up to its await, on the tab states ts and the
\* loaded set lr its caller has produced
loadFirstPage(tab, force, ts, lr, pf) ==
    IF ~force /\ tab.key \in lr
    THEN /\ tabStates' = ts
         /\ loadedRef' = lr
         /\ pageFetches' = pf
    ELSE /\ BagCardinality(pf) < MaxInFlight
         /\ tabStates' = patchTabState(ts, tab.key, [loading |-> TRUE])
         /\ loadedRef' = lr \cup {tab.key}
         /\ pageFetches' = pf (+) SetToBag({FirstPageFetch(tab, force)})

\* a tab is pressed: setActiveKey(tab.key), then the effect on activeKey
\* calls loadFirstPage(activeTab)
SelectTab(k) ==
    /\ ~initialLoading
    /\ k \in 1..Len(tabs)
    /\ tabs[k].key # activeKey
    /\ activeKey' = tabs[k].key
    /\ loadFirstPage(tabs[k], FALSE, tabStates, loadedRef, pageFetches)
    /\ UNCHANGED <<tabs, initialLoading, refreshing, bootPc>>
    /\ UNCHANGED <<libVars, seriesVars, retry, restVars>>

\* pull-to-refresh: onRefresh()
OnRefresh ==
    /\ ~initialLoading
    /\ tabs # <<>>
    /\ ~refreshing
    /\ refreshing' = TRUE
    /\ loadFirstPage(activeTab, TRUE,
                     WithKey(tabStates, activeTab.key, mkTabState),
                     loadedRef \ {activeTab.key},
                     BeforeRefresh(pageFetches, activeTab.key))
    /\ UNCHANGED <<tabs, activeKey, initialLoading, bootPc>>
    /\ UNCHANGED <<libVars, seriesVars, retry, restVars>>

\* loadNextPage(tab): the updater handed to setTabStates
LoadNextPage(tab) ==
    /\ IF \/ tab.key \notin DOMAIN tabStates
          \/ tabStates[tab.key].loading
          \/ ~tabStates[tab.key].hasMore
       THEN UNCHANGED <<tabStates, pageFetches>>
       ELSE /\ tabStates[tab.key].page < MaxPageNo
            /\ BagCardinality(pageFetches) < MaxInFlight
            /\ pageFetches' = pageFetches
                              (+) SetToBag({NextPageFetch(tab, tabStates[tab.key])})
            /\ tabStates' = WithKey(tabStates, tab.key,
                                    [tabStates[tab.key] EXCEPT !.loading = TRUE])
    /\ UNCHANGED <<tabs, activeKey, initialLoading, refreshing, loadedRef, bootPc>>
    /\ UNCHANGED <<libVars, seriesVars, retry, restVars>>

\* the list reaches its end: onEndReached calls loadNextPage(activeTab)
OnEndReached ==
    /\ ~initialLoading
    /\ tabs # <<>>
    /\ LoadNextPage(activeTab)

\* the fetchPage call r of loadFirstPage resolves with res
FirstPageArrives(r, res) ==
    /\ r \in BagToSet(pageFetches)
    /\ r.kind = "first"
    /\ pageFetches' = pageFetches (-) SetToBag({r})
    /\ tabStates' = patchTabState(tabStates, r.tab.key,
                                  [posts |-> res.posts, page |-> 1,
                                   hasMore |-> res.hasMore, total |-> res.total,
                                   loading |-> FALSE])
    /\ refreshing' = IF r.force THEN FALSE ELSE refreshing
    /\ UNCHANGED <<tabs, activeKey, initialLoading, loadedRef, bootPc>>
    /\ UNCHANGED <<libVars, seriesVars, retry, restVars>>

\* the fetchPage call r of loadFirstPage rejects
FirstPageFails(r) ==
    /\ r \in BagToSet(pageFetches)
    /\ r.kind = "first"
    /\ pageFetches' = pageFetches (-) SetToBag({r})
    /\ tabStates' = patchTabState(tabStates, r.tab.key, [loading |-> FALSE])
    /\ refreshing' = IF r.force THEN FALSE ELSE refreshing
    /\ UNCHANGED <<tabs, activeKey, initialLoading, loadedRef, bootPc>>
    /\ UNCHANGED <<libVars, seriesVars, retry, restVars>>

\* newPosts.filter((p) => !existingIds.has(p.id)), existingIds being the ids
\* of the captured state's posts
FreshPosts(newPosts, state) ==
    SelectSeq(newPosts,
              LAMBDA p : p.id \notin {state.posts[j].id : j \in 1..Len(state.posts)})

\* the fetchPage call r of loadNextPage resolves with res
NextPageArrives(r, res) ==
    /\ r \in BagToSet(pageFetches)
    /\ r.kind = "next"
    /\ pageFetches' = pageFetches (-) SetToBag({r})
    /\ LET p2 == TabStateOf(tabStates, r.tab.key)
       IN  tabStates' = WithKey(tabStates, r.tab.key,
               ObjectSpread(p2,
                   [posts |-> (IF "posts" \in DOMAIN p2 THEN p2.posts ELSE <<>>)
                              \o FreshPosts(res.posts, r.state),
                    page |-> r.page, hasMore |-> res.hasMore,
                    total |-> res.total, loading |-> FALSE]))
    /\ UNCHANGED <<tabs, activeKey, initialLoading, refreshing, loadedRef, bootPc>>
    /\ UNCHANGED <<libVars, seriesVars, retry, restVars>>

\* the fetchPage call r of loadNextPage rejects
NextPageFails(r) ==
    /\ r \in BagToSet(pageFetches)
    /\ r.kind = "next"
    /\ pageFetches' = pageFetches (-) SetToBag({r})
    /\ tabStates' = WithKey(tabStates, r.tab.key,
                            ObjectSpread(TabStateOf(tabStates, r.tab.key),
                                         [loading |-> FALSE]))
    /\ UNCHANGED <<tabs, activeKey, initialLoading, refreshing, loadedRef, bootPc>>
    /\ UNCHANGED <<libVars, seriesVars, retry, restVars>>

\* the fetchPage calls of the list screen in flight
PageFetchSet == BagToSet(pageFetches)

\* List screen: mounted, boot() waiting for fetchCategories().
InitList ==
    /\ KNOWN_SERIES_CAT_IDS = {SeedSeriesCatId}
    /\ cats = <<>>
    /\ post = SP1
    /\ verdict = NoVerdict
    /\ feed = <<>>
    /\ built = <<>>
    /\ dedupIn = <<>>
    /\ shown = <<>>
    /\ deduped = FALSE
    /\ tabs = <<>>
    /\ activeKey = <<"a", "l", "l">>
    /\ tabStates = <<>>
    /\ initialLoading = TRUE
    /\ refreshing = FALSE
    /\ loadedRef = {}
    /\ bootPc = "categories"
    /\ pageFetches = EmptyBag
    /\ SeriesUnmounted
    /\ retry = RetryIdle
    /\ RestIdle

NextList ==
    \/ \E c \in ListCatLists : BootCategories(c)
    \/ \E res \in PageResults : BootPage(res)
    \/ BootFails
    \/ \E k \in 1..Len(tabs) : SelectTab(k)
    \/ OnRefresh
    \/ OnEndReached
    \/ \E r \in PageFetchSet : \E res \in PageResultsFor(r.tab) :
           FirstPageArrives(r, res)
    \/ \E r \in PageFetchSet : FirstPageFails(r)
    \/ \E r \in PageFetchSet : \E res \in PageResultsFor(r.tab) :
           NextPageArrives(r, res)
    \/ \E r \in PageFetchSet : NextPageFails(r)

SpecList == InitList /\ [][NextList]_vars

---------------------------------------------------------------------------
(* Operations of the series screen.                                         *)

\* load() up to its await
StartLoad ==
    /\ loadCount < MaxLoads
    /\ error' = FALSE
    /\ seenKeys' = {}
    /\ seriesSections' = <<>>
    /\ loadCount' = loadCount + 1
    /\ pinnedFetches' = pinnedFetches \cup {loadCount + 1}

\* pull-to-refresh on the section list: setRefreshing(true); load()
PullToRefresh ==
    /\ ~loading
    /\ ~error
    /\ ~seriesRefreshing
    /\ seriesRefreshing' = TRUE
    /\ StartLoad
    /\ UNCHANGED <<loading, categoryFetches>>
    /\ UNCHANGED <<libVars, listVars, retry, restVars>>

\* the retry button of the error view: load()
PressRetry ==
    /\ ~loading
    /\ error
    /\ StartLoad
    /\ UNCHANGED <<loading, seriesRefreshing, categoryFetches>>
    /\ UNCHANGED <<libVars, listVars, retry, restVars>>

\* Promise.all of the load() call numbered n resolves with res: steps 2 and 3
PinnedArrives(n, res) ==
    /\ n \in pinnedFetches
    /\ pinnedFetches' = pinnedFetches \ {n}
    /\ KNOWN_SERIES_CAT_IDS' = discoverSeriesCategories(KNOWN_SERIES_CAT_IDS, res.cats)
    /\ cats' = res.cats
    /\ LET a1 == addSection(seriesSections, seenKeys, LatestSection(res.latest, n))
           a2 == addSection(a1.sections, a1.seenKeys,
                            TrendingSection(res.trending, n))
       IN  /\ seriesSections' = a2.sections
           /\ seenKeys' = a2.seenKeys
    /\ loading' = FALSE
    /\ categoryFetches' = categoryFetches
                          \cup {[load |-> n, cat |-> c] : c \in Range(seriesCats(res.cats))}
    /\ seriesRefreshing' = FALSE
    /\ UNCHANGED <<error, loadCount>>
    /\ UNCHANGED <<post, verdict, feed, built, dedupIn, shown, deduped>>
    /\ UNCHANGED <<listVars, retry, restVars>>

\* Promise.all of the load() call numbered n rejects (catch, finally)
PinnedFails(n) ==
    /\ n \in pinnedFetches
    /\ pinnedFetches' = pinnedFetches \ {n}
    /\ error' = TRUE
    /\ loading' = FALSE
    /\ seriesRefreshing' = FALSE
    /\ UNCHANGED <<seriesSections, seenKeys, loadCount, categoryFetches>>
    /\ UNCHANGED <<libVars, listVars, retry, restVars>>

\* the background fetchPage call r resolves with posts (then)
CategoryArrives(r, posts) ==
    /\ r \in categoryFetches
    /\ categoryFetches' = categoryFetches \ {r}
    /\ LET a == addSection(seriesSections, seenKeys,
                           CategorySection(r.cat, posts, r.load))
       IN  /\ seriesSections' = a.sections
           /\ seenKeys' = a.seenKeys
    /\ UNCHANGED <<loading, error, seriesRefreshing, loadCount, pinnedFetches>>
    /\ UNCHANGED <<libVars, listVars, retry, restVars>>

\* a catch that reports the failure on the screen
CategoryFails_ShowsError(r) ==
    /\ r \in categoryFetches
    /\ categoryFetches' = categoryFetches \ {r}
    /\ error' = TRUE
    /\ UNCHANGED <<seriesSections, seenKeys, loading, seriesRefreshing,
                   loadCount, pinnedFetches>>
    /\ UNCHANGED <<libVars, listVars, retry, restVars>>

\* the background fetchPage call r rejects (catch)
CategoryFails(r) ==
    /\ r \in categoryFetches
    /\ categoryFetches' = categoryFetches \ {r}
    /\ UNCHANGED <<seriesSections, seenKeys, loading, error, seriesRefreshing,
                   loadCount, pinnedFetches>>
    /\ UNCHANGED <<libVars, listVars, retry, restVars>>

\* Series screen: mounted, the first load() waiting for its Promise.all.
InitSeries ==
    /\ KNOWN_SERIES_CAT_IDS = {SeedSeriesCatId}
    /\ cats = <<>>
    /\ post = SP1
    /\ verdict = NoVerdict
    /\ feed = <<>>
    /\ built = <<>>
    /\ dedupIn = <<>>
    /\ shown = <<>>
    /\ deduped = FALSE
    /\ ListUnmounted
    /\ seriesSections = <<>>
    /\ loading = TRUE
    /\ error = FALSE
    /\ seriesRefreshing = FALSE
    /\ seenKeys = {}
    /\ loadCount = 1
    /\ pinnedFetches = {1}
    /\ categoryFetches = {}
    /\ retry = RetryIdle
    /\ RestIdle

NextSeries ==
    \/ PullToRefresh
    \/ PressRetry
    \/ \E n \in pinnedFetches, res \in PinnedResults : PinnedArrives(n, res)
    \/ \E n \in pinnedFetches : PinnedFails(n)
    \/ \E r \in categoryFetches, posts \in CategoryResults : CategoryArrives(r, posts)
    \/ \E r \in categoryFetches : CategoryFails(r)

SpecSeries == InitSeries /\ [][NextSeries]_vars

---------------------------------------------------------------------------
(* Operations of withRetry.                                                 *)

\* fn() of the current attempt resolves with v: return await fn()
FnResolves(v) ==
    /\ retry.status = "calling"
    /\ retry' = [retry EXCEPT !.status = "returned", !.result = v]
    /\ UNCHANGED <<libVars, listVars, seriesVars, restVars>>

\* fn() of the current attempt rejects with e: the catch block, and the
\* throw after the loop when no attempt is left
FnRejects(e) ==
    /\ retry.status = "calling"
    /\ retry' = IF retry.i < Retries
                THEN [retry EXCEPT !.lastErr = e, !.errors = Append(@, e),
                                   !.status = "sleeping",
                                   !.waited = Append(@, RetryWait(retry.i))]
                ELSE [retry EXCEPT !.lastErr = e, !.errors = Append(@, e),
                                   !.i = @ + 1,
                                   !.status = "thrown", !.result = e]
    /\ UNCHANGED <<libVars, listVars, seriesVars, restVars>>

\* the setTimeout of the catch block fires: i++ and the next fn() call
TimerFires ==
    /\ retry.status = "sleeping"
    /\ retry' = [retry EXCEPT !.i = @ + 1, !.status = "calling", !.calls = @ + 1]
    /\ UNCHANGED <<libVars, listVars, seriesVars, restVars>>

\* withRetry(fn) has been called and waits for the first fn()
InitRetry ==
    /\ KNOWN_SERIES_CAT_IDS = {SeedSeriesCatId}
    /\ cats = <<>>
    /\ post = SP1
    /\ verdict = NoVerdict
    /\ feed = <<>>
    /\ built = <<>>
    /\ dedupIn = <<>>
    /\ shown = <<>>
    /\ deduped = FALSE
    /\ ListUnmounted
    /\ SeriesUnmounted
    /\ retry = [RetryIdle EXCEPT !.status = "calling", !.calls = 1]
    /\ RestIdle

NextRetry ==
    \/ \E v \in RetryValues : FnResolves(v)
    \/ \E e \in RetryErrors : FnRejects(e)
    \/ TimerFires

SpecRetry == InitRetry /\ [][NextRetry]_vars

---------------------------------------------------------------------------
(* The marker-tag helpers, each called at most once on the post.            *)

notTagVars == <<libVars, listVars, seriesVars, retry, titleVars, catFetch, moviesVars>>

\* safeClassList(post)
CallSafeClassList ==
    /\ ~tagRead.classList.called
    /\ tagRead' = [tagRead EXCEPT !.classList = Returned(safeClassList(tagPost))]
    /\ UNCHANGED <<tagPost, notTagVars>>

\* getClass(post, prefix)
CallGetClass(prefix) ==
    /\ ~tagRead.found.called
    /\ tagRead' = [tagRead EXCEPT
                      !.prefix = prefix,
                      !.found = IF getClassThrows(tagPost, prefix) THEN Threw
                                ELSE Returned(getClass(tagPost, prefix))]
    /\ UNCHANGED <<tagPost, notTagVars>>

\* isSeries(post)
CallIsSeries ==
    /\ ~tagRead.series.called
    /\ tagRead' = [tagRead EXCEPT
                      !.series = IF isSeriesThrows(tagPost) THEN Threw
                                 ELSE Returned(isSeries(tagPost))]
    /\ UNCHANGED <<tagPost, notTagVars>>

\* isMovie(post), which calls isSeries(post)
CallIsMovie ==
    /\ ~tagRead.movie.called
    /\ tagRead' = [tagRead EXCEPT
                      !.movie = IF isSeriesThrows(tagPost) THEN Threw
                                ELSE Returned(isMovie(tagPost))]
    /\ UNCHANGED <<tagPost, notTagVars>>

InitTags ==
    /\ LibIdle
    /\ ListUnmounted
    /\ SeriesUnmounted
    /\ retry = RetryIdle
    /\ TitlesIdle
    /\ catFetch = CatFetchIdle
    /\ MoviesUnmounted
    /\ tagPost \in TagPosts
    /\ tagRead = NoTagRead

NextTags ==
    \/ CallSafeClassList
    \/ \E prefix \in TagPrefixes : CallGetClass(prefix)
    \/ CallIsSeries
    \/ CallIsMovie

SpecTags == InitTags /\ [][NextTags]_vars

---------------------------------------------------------------------------
(* cleanTitle applied to a text, and applied again to its own result.       *)

notTitleVars == <<libVars, listVars, seriesVars, retry, tagVars, catFetch, moviesVars>>

\* cleanTitle(rawTitle)
CleanOnce ==
    /\ cleaned.calls = 0
    /\ cleaned' = [cleaned EXCEPT !.calls = 1, !.once = cleanTitle(rawTitle)]
    /\ UNCHANGED <<rawTitle, notTitleVars>>

\* cleanTitle of the text the first call returned
CleanAgain ==
    /\ cleaned.calls = 1
    /\ cleaned' = [cleaned EXCEPT !.calls = 2, !.twice = cleanTitle(cleaned.once)]
    /\ UNCHANGED <<rawTitle, notTitleVars>>

InitTitles ==
    /\ LibIdle
    /\ ListUnmounted
    /\ SeriesUnmounted
    /\ retry = RetryIdle
    /\ TagsIdle
    /\ catFetch = CatFetchIdle
    /\ MoviesUnmounted
    /\ rawTitle \in RawTitles
    /\ cleaned = NotCleaned

NextTitles == CleanOnce \/ CleanAgain

SpecTitles == InitTitles /\ [][NextTitles]_vars

---------------------------------------------------------------------------
(* fetchCategories (apiUtils.ts:241-275): the first page, then every other  *)
(* page the header announces, all requested at once; withRetry runs the     *)
(* whole function again when a request fails.                               *)

notCatVars == <<libVars, listVars, seriesVars, retry, tagVars, titleVars, moviesVars>>

\* the pages 2..totalPages requested by Array.from({length: totalPages - 1})
ExtraPages(totalPages) == 2..totalPages

\* the first response arrives with header h and n records
CatFirstArrives(h, n) ==
    /\ catFetch.pc = "first"
    /\ LET totalPages == ParseTotalPages(h)
           got == {[page |-> 1, size |-> n]}
       IN  catFetch' =
             IF totalPages <= 1
             THEN [catFetch EXCEPT !.pc = "done", !.totalPages = totalPages,
                                   !.got = got, !.result = InPageOrder(got, 1)]
             ELSE [catFetch EXCEPT !.pc = "extras", !.totalPages = totalPages,
                                   !.got = got,
                                   !.sent = {1} \cup ExtraPages(totalPages)]
    /\ UNCHANGED notCatVars

\* the response of a further page arrives with n records; Promise.all
\* resolves with the last of them
CatExtraArrives(page, n) ==
    /\ catFetch.pc = "extras"
    /\ page \in catFetch.sent
    /\ \A a \in catFetch.got : a.page # page
    /\ LET got == catFetch.got \cup {[page |-> page, size |-> n]}
       IN  catFetch' =
             IF Cardinality(got) = Cardinality(catFetch.sent)
             THEN [catFetch EXCEPT !.pc = "done", !.got = got,
                                   !.result = InPageOrder(got, Cardinality(got))]
             ELSE [catFetch EXCEPT !.got = got]
    /\ UNCHANGED notCatVars

\* a request of the attempt fails: withRetry runs the function again, or
\* gives up after the last attempt
CatRequestFails ==
    /\ catFetch.pc \in {"first", "extras"}
    /\ catFetch' = IF catFetch.try < Retries
                   THEN CatFetchStart(catFetch.try + 1)
                   ELSE [catFetch EXCEPT !.pc = "failed"]
    /\ UNCHANGED notCatVars

InitCategories ==
    /\ LibIdle
    /\ ListUnmounted
    /\ SeriesUnmounted
    /\ retry = RetryIdle
    /\ TagsIdle
    /\ TitlesIdle
    /\ MoviesUnmounted
    /\ catFetch = CatFetchStart(0)

NextCategories ==
    \/ \E h \in TotalPagesHeaders, n \in PageSizes : CatFirstArrives(h, n)
    \/ \E page \in 2..MaxTotalPages, n \in PageSizes : CatExtraArrives(page, n)
    \/ CatRequestFails

SpecCategories == InitCategories /\ [][NextCategories]_vars

---------------------------------------------------------------------------
(* The movies screen (index.tsx:207-339): init() picks the sections, and    *)
(* every change of mode loads the posts of all sections again.  init is     *)
(* the closure of the first render: the mode it reads is "latest".          *)

notMoviesVars == <<libVars, listVars, seriesVars, retry, tagVars, titleVars, catFetch>>

\* loadAllSections(modeTax, secs, m) up to its await
loadAllSections(modeTax, secs, m, byInit) ==
    /\ BagCardinality(sectionLoads) < MaxSectionLoads
    /\ moviesLoading' = TRUE
    /\ sectionLoads' = sectionLoads (+) SetToBag({SectionLoad(modeTax, secs, m, byInit)})

\* init(): fetchTerms("categories") resolves with terms
CategoryTermsArrive(terms) ==
    /\ initPc = "categories"
    /\ IF Len(pickGoodTerms(terms)) >= 3
       THEN /\ taxMode' = "categories"
            /\ movieSections' = SectionsOf(terms)
            /\ loadAllSections("categories", SectionsOf(terms), "latest", TRUE)
            /\ initPc' = "sections"
       ELSE /\ initPc' = "tags"
            /\ UNCHANGED <<taxMode, movieSections, moviesLoading, sectionLoads>>
    /\ UNCHANGED <<movieMode, postsBySection>>
    /\ UNCHANGED notMoviesVars

\* init(): fetchTerms("tags") resolves with terms
TagTermsArrive(terms) ==
    /\ initPc = "tags"
    /\ taxMode' = "tags"
    /\ movieSections' = SectionsOf(terms)
    /\ loadAllSections("tags", SectionsOf(terms), "latest", TRUE)
    /\ initPc' = "sections"
    /\ UNCHANGED <<movieMode, postsBySection>>
    /\ UNCHANGED notMoviesVars

\* init(): a fetchTerms call rejects (catch, finally)
TermsFail ==
    /\ initPc \in {"categories", "tags"}
    /\ initPc' = "done"
    /\ moviesLoading' = FALSE
    /\ UNCHANGED <<movieMode, taxMode, movieSections, postsBySection, sectionLoads>>
    /\ UNCHANGED notMoviesVars

\* a filter button is pressed: setMode(m), then the effect on mode
PressMode(m) ==
    /\ initPc # "unmounted"
    /\ m # movieMode
    /\ movieMode' = m
    /\ IF taxMode # "null" /\ Len(movieSections) > 0
       THEN loadAllSections(taxMode, movieSections, m, FALSE)
       ELSE UNCHANGED <<moviesLoading, sectionLoads>>
    /\ UNCHANGED <<taxMode, movieSections, postsBySection, initPc>>
    /\ UNCHANGED notMoviesVars

\* the Promise.all of the loadAllSections call r resolves
SectionsArrive(r) ==
    /\ r \in BagToSet(sectionLoads)
    /\ sectionLoads' = sectionLoads (-) SetToBag({r})
    /\ postsBySection' = SectionMap(r)
    /\ moviesLoading' = FALSE
    /\ initPc' = IF r.byInit THEN "done" ELSE initPc
    /\ UNCHANGED <<movieMode, taxMode, movieSections>>
    /\ UNCHANGED notMoviesVars

\* a fetchPostsForSection call of the loadAllSections call r rejects
SectionsFail(r) ==
    /\ r \in BagToSet(sectionLoads)
    /\ sectionLoads' = sectionLoads (-) SetToBag({r})
    /\ moviesLoading' = FALSE
    /\ initPc' = IF r.byInit THEN "done" ELSE initPc
    /\ UNCHANGED <<movieMode, taxMode, movieSections, postsBySection>>
    /\ UNCHANGED notMoviesVars

SectionLoadSet == BagToSet(sectionLoads)

\* Movies screen: mounted, init() waiting for fetchTerms("categories").
InitMovies ==
    /\ LibIdle
    /\ ListUnmounted
    /\ SeriesUnmounted
    /\ retry = RetryIdle
    /\ TagsIdle
    /\ TitlesIdle
    /\ catFetch = CatFetchIdle
    /\ movieMode = "latest"
    /\ taxMode = "null"
    /\ movieSections = <<>>
    /\ postsBySection = <<>>
    /\ moviesLoading = TRUE
    /\ initPc = "categories"
    /\ sectionLoads = EmptyBag

NextMovies ==
    \/ \E terms \in TermLists : CategoryTermsArrive(terms)
    \/ \E terms \in TermLists : TagTermsArrive(terms)
    \/ TermsFail
    \/ \E m \in {"latest", "trending"} : PressMode(m)
    \/ \E r \in SectionLoadSet : SectionsArrive(r)
    \/ \E r \in SectionLoadSet : SectionsFail(r)

SpecMovies == InitMovies /\ [][NextMovies]_vars

---------------------------------------------------------------------------
(* Vocabulary of the claims.                                                *)

\* the marker tags of a post: the string entries of its class_list
TagsOf(p) ==
    IF p.class_list.shape \in {"array", "object"}
    THEN {e.s : e \in {x \in Range(p.class_list.items) : x.str}}
    ELSE {}

\* the tag is series-<name>
IsSeriesPrefixed(t) == Len(t) >= 7 /\ SubSeq(t, 1, 7) = <<"s", "e", "r", "i", "e", "s", "-">>

\* the tag is series-<digits>
IsNumericSeriesTag(t) ==
    /\ IsSeriesPrefixed(t)
    /\ Len(t) > 7
    /\ \A k \in 8..Len(t) : t[k] \in Range(Digits)

HasNamedSeriesTag(p) ==
    \E t \in TagsOf(p) : IsSeriesPrefixed(t) /\ ~IsNumericSeriesTag(t)

HasRegistryCategory(p, known) == \E c \in Range(p.categories) : c \in known

\* s contains pat, letter case ignored (pat is lower case)
ContainsCI(s, pat) == \E i \in 1..Len(s) : LitAtCI(s, i, pat)

\* positions i..j of s are decimal digits, at least one
DigitsBetween(s, i, j) == i <= j /\ \A k \in i..j : DigitAt(s, k)

\* s contains S<number>E<number> whose season number has between 1 and
\* maxSeason digits
HasSeasonEpisodeCode(s, maxSeason) ==
    \E i \in 1..Len(s) : \E j \in (i + 1)..Len(s) :
        /\ LowerChar(s[i]) = "s"
        /\ DigitsBetween(s, i + 1, j - 1)
        /\ j - 1 - i <= maxSeason
        /\ LowerChar(s[j]) = "e"
        /\ DigitAt(s, j + 1)

\* s contains ep / episode at the start of a word, then white space or (for
\* ep) one full stop and white space, then a digit
HasNumberedEpisodeWord(s) ==
    \E i \in 1..Len(s) : \E j \in (i + 1)..Len(s) :
        /\ i = 1 \/ ~IsWord(s[i - 1])
        /\ DigitAt(s, j)
        /\ \/ /\ LitAtCI(s, i, <<"e", "p", "i", "s", "o", "d", "e">>)
              /\ \A k \in (i + 7)..(j - 1) : IsSpace(s[k])
           \/ /\ LitAtCI(s, i, <<"e", "p">>)
              /\ \A k \in (i + 2)..(j - 1) : IsSpace(s[k]) \/ (k = i + 2 /\ s[k] = ".")

\* s contains one of the Arabic episode spellings of the title pattern
HasArabicEpisodeToken(s) ==
    \/ includes(s, <<"ar_alef", "ar_lam", "ar_hah", "ar_lam", "ar_qaf", "ar_teh_marbuta">>)
    \/ includes(s, <<"ar_hah", "ar_lam", "ar_qaf", "ar_heh">>)
    \/ includes(s, <<"ar_meem", "ar_sheen", "ar_alef", "ar_heh", "ar_dal", "ar_teh_marbuta", " ", "ar_hah", "ar_lam", "ar_qaf", "ar_teh_marbuta">>)

---------------------------------------------------------------------------
(* Claims about the classifier, checked under Spec.                         *)

\* C1: isSeries(post) is true for every post that has a category id in the
\* known-series registry as it stood at the call, even with no series tag
\* and no episode pattern in the title (tier 3).
C1_RegistryCategoryIsSeries ==
    (verdict.done /\ HasRegistryCategory(post, verdict.known)) => verdict.series

\* C2: a post with a tag series-<name>, <name> not purely numeric, is a
\* series whatever its title and categories; a post whose only
\* series-prefixed tags are series-<digits>, whose cleaned title matches no
\* episode pattern and that has no registry category is a movie.
C2_SeriesTagTier ==
    verdict.done =>
        /\ HasNamedSeriesTag(post) => verdict.series
        /\ ( /\ \E t \in TagsOf(post) : IsSeriesPrefixed(t)
             /\ \A t \in TagsOf(post) : IsSeriesPrefixed(t) => IsNumericSeriesTag(t)
             /\ ~EPISODE_TITLE_RE(cleanTitle(post.title))
             /\ ~HasRegistryCategory(post, verdict.known) )
           => (verdict.movie /\ ~verdict.series)

C2_Witness ==
    /\ verdict.done
    /\ verdict.series
    /\ HasNamedSeriesTag(post)
    /\ post.title = <<"F", "i", "l", "m">>
    /\ post.categories = <<>>

\* C3 as stated: with no series tag and no registry category, a cleaned
\* title that contains S<number>E<number>, whatever the length of the
\* numbers, makes the post a series.
C3_AnySeasonEpisodeCode ==
    ( /\ verdict.done
      /\ ~HasNamedSeriesTag(post)
      /\ ~HasRegistryCategory(post, verdict.known)
      /\ HasSeasonEpisodeCode(cleanTitle(post.title), Len(post.title)) )
    => verdict.series

\* C3 amended: with no series tag and no registry category, a cleaned title
\* that contains S<number>E<number> with a season number of one or two
\* digits (any letter case) makes the post a series.
C3_SeasonEpisodeCodeTier ==
    ( /\ verdict.done
      /\ ~HasNamedSeriesTag(post)
      /\ ~HasRegistryCategory(post, verdict.known)
      /\ HasSeasonEpisodeCode(cleanTitle(post.title), 2) )
    => verdict.series

C3_Witness ==
    /\ verdict.done
    /\ verdict.series
    /\ TagsOf(post) = {}
    /\ post.categories = <<>>
    /\ cleanTitle(post.title) = <<"S", "0", "1", "E", "0", "2">>

\* C4 as stated: with no series tag, a cleaned title that contains the word
\* "episode" (Latin or Arabic spelling) or a season marker ("season",
\* Arabic "mawsim") makes the post a series.
C4_EpisodeOrSeasonWord ==
    ( /\ verdict.done
      /\ ~HasNamedSeriesTag(post)
      /\ LET t == cleanTitle(post.title)
         IN  \/ ContainsCI(t, <<"e", "p", "i", "s", "o", "d", "e">>)
             \/ includes(t, <<"ar_hah", "ar_lam", "ar_qaf", "ar_teh_marbuta">>)
             \/ includes(t, <<"ar_hah", "ar_lam", "ar_qaf", "ar_heh">>)
             \/ ContainsCI(t, <<"s", "e", "a", "s", "o", "n">>)
             \/ includes(t, <<"ar_meem", "ar_waw", "ar_seen", "ar_meem">>) )
    => verdict.series

\* C4 amended: with no series tag, a cleaned title that contains one of the
\* Arabic episode spellings of the title pattern ("al-halqa", "halqh",
\* "mushahadat halqa"), or the word ep / episode followed by a number, makes
\* the post a series without any S<n>E<n> code; the bare word "episode", the
\* spelling "halqa" on its own and a season marker do not count.
C4_EpisodeTokenTier ==
    ( /\ verdict.done
      /\ ~HasNamedSeriesTag(post)
      /\ LET t == cleanTitle(post.title)
         IN  HasArabicEpisodeToken(t) \/ HasNumberedEpisodeWord(t) )
    => verdict.series

C4_Witness ==
    /\ verdict.done
    /\ verdict.series
    /\ TagsOf(post) = {}
    /\ HasArabicEpisodeToken(cleanTitle(post.title))
    /\ ~HasSeasonEpisodeCode(cleanTitle(post.title), 2)

---------------------------------------------------------------------------
(* Claims about the section pipeline, checked under SpecSections.           *)

PostIds(section) == {section.posts[j].id : j \in 1..Len(section.posts)}

AllPostIds(sections) == UNION {PostIds(sections[i]) : i \in 1..Len(sections)}

\* the posts of section i that are first occurrences of their id: the id is
\* in no earlier section and at no earlier position of section i
FirstOccurrences(sections, i) ==
    LET ps == sections[i].posts
        first(j) ==
            /\ \A h \in 1..(i - 1) : ps[j].id \notin PostIds(sections[h])
            /\ \A g \in 1..(j - 1) : ps[g].id # ps[j].id
        RECURSIVE Pick(_)
        Pick(n) == IF n = 0 THEN <<>>
                   ELSE IF first(n) THEN Append(Pick(n - 1), ps[n])
                   ELSE Pick(n - 1)
    IN  Pick(Len(ps))

\* a is b with some elements left out
RECURSIVE IsSubSeq(_, _)
IsSubSeq(a, b) ==
    IF a = <<>> THEN TRUE
    ELSE IF b = <<>> THEN FALSE
    ELSE IF Head(a) = Head(b) THEN IsSubSeq(Tail(a), Tail(b))
    ELSE IsSubSeq(a, Tail(b))

\* C5: deduplicateSections is first-seen-wins: over all output sections
\* together every post id occurs at most once, every input id is kept, and
\* it is kept in the first input section that held it, at its first position.
C5_FirstSeenWins ==
    deduped =>
        /\ \A k1, k2 \in 1..Len(shown) :
             \A j1 \in 1..Len(shown[k1].posts), j2 \in 1..Len(shown[k2].posts) :
                shown[k1].posts[j1].id = shown[k2].posts[j2].id
                    => (k1 = k2 /\ j1 = j2)
        /\ AllPostIds(shown) = AllPostIds(dedupIn)
        /\ \A i \in 1..Len(dedupIn) :
             FirstOccurrences(dedupIn, i) # <<>> =>
                \E k \in 1..Len(shown) :
                    /\ shown[k].key = dedupIn[i].key
                    /\ shown[k].posts = FirstOccurrences(dedupIn, i)

C5_Witness ==
    /\ deduped
    /\ \E i, h \in 1..Len(dedupIn) :
          /\ h < i
          /\ PostIds(dedupIn[i]) \cap PostIds(dedupIn[h]) # {}
          /\ FirstOccurrences(dedupIn, i) # <<>>

\* the input sections that keep at least one post: they hold an id that no
\* earlier section holds
Survivors(sections) ==
    {i \in 1..Len(sections) :
        \E id \in PostIds(sections[i]) :
            \A h \in 1..(i - 1) : id \notin PostIds(sections[h])}

\* C6: deduplicateSections drops exactly the sections left with zero posts;
\* the others stay in input order with key, label and emoji unchanged and
\* their surviving posts in their original relative order.
C6_DropsOnlyEmptySections ==
    deduped =>
        LET alive == Survivors(dedupIn)
            nth(k) == CHOOSE i \in alive :
                          Cardinality({h \in alive : h < i}) = k - 1
        IN  /\ Len(shown) = Cardinality(alive)
            /\ \A k \in 1..Len(shown) :
                 /\ shown[k].key = dedupIn[nth(k)].key
                 /\ shown[k].label = dedupIn[nth(k)].label
                 /\ shown[k].emoji = dedupIn[nth(k)].emoji
                 /\ Len(shown[k].posts) > 0
                 /\ IsSubSeq(shown[k].posts, dedupIn[nth(k)].posts)

C6_Witness ==
    /\ deduped
    /\ Len(shown) >= 1
    /\ Len(shown) < Len(dedupIn)
    /\ \E k \in 1..Len(shown) : shown[k].key # dedupIn[k].key

\* number of posts of the feed in the country group id
CountryGroupSize(id) ==
    Cardinality({i \in 1..Len(feed) : getClass(feed[i], <<"c", "o", "u", "n", "t", "r", "y">>) = id})

\* C7: every section a builder returns holds at least 2 and at most 10
\* posts; a country group of exactly 1 post yields no section and a country
\* group of exactly 2 posts yields one.
C7_SectionSizeBounds ==
    \A b \in Range(built) :
        /\ \A sec \in Range(b.out) :
             Len(sec.posts) >= 2 /\ Len(sec.posts) <= 10
        /\ b.kind = "country" =>
             \A p \in Range(feed) :
                LET id == getClass(p, <<"c", "o", "u", "n", "t", "r", "y">>)
                    present == \E sec \in Range(b.out) : sec.key = <<"c", "o", "u", "n", "t", "r", "y", "-">> \o id
                IN  id # <<>> =>
                      /\ CountryGroupSize(id) = 1 => ~present
                      /\ CountryGroupSize(id) = 2 => present

C7_Witness ==
    \E b \in Range(built) :
        /\ b.kind = "country"
        /\ \E sec \in Range(b.out) :
              /\ Len(sec.posts) = 10
              /\ CountryGroupSize(sliceFrom(sec.key, 8)) > 10

\* C8: no section with fewer than 2 posts leaves the pipeline section
\* builders -> deduplicateSections (stated for fetched lists without
\* repeated posts, the lists one response of the remote holds).
C8_ShownSectionsHoldTwoPosts ==
    (deduped /\ \A i, j \in 1..Len(feed) : feed[i].id = feed[j].id => i = j)
        => \A sec \in Range(shown) : Len(sec.posts) >= 2

---------------------------------------------------------------------------
(* Claims about the registry, checked under SpecRegistry.                   *)

\* the lower-cased name contains a series keyword
NameHasSeriesKeyword(name) ==
    \E kw \in Range(SERIES_KEYWORDS) : includes(toLowerCase(name), kw)

\* C9: a discoverSeriesCategories call adds to the registry exactly the ids
\* of the categories of its argument whose lower-cased name contains a
\* series keyword; "Turkish Dramas" is not added, a name containing the
\* Arabic word for series is.
C9_DiscoverAddsKeywordCategories ==
    [][ /\ KNOWN_SERIES_CAT_IDS' =
             KNOWN_SERIES_CAT_IDS
             \cup {c.id : c \in {x \in Range(cats') : NameHasSeriesKeyword(x.name)}}
        /\ (Cat_Turkish.id \notin KNOWN_SERIES_CAT_IDS)
             => (Cat_Turkish.id \notin KNOWN_SERIES_CAT_IDS')
        /\ (Cat_KoreanSeries \in Range(cats'))
             => (Cat_KoreanSeries.id \in KNOWN_SERIES_CAT_IDS') ]_vars

C9_Witness ==
    /\ cats = <<Cat_Turkish, Cat_KoreanSeries>>
    /\ KNOWN_SERIES_CAT_IDS = {SeedSeriesCatId, Cat_KoreanSeries.id}

\* C10: the registry is append-only: it always holds the seed id 35307 and
\* no step removes an id.
C10_RegistryAppendOnly ==
    /\ [](35307 \in KNOWN_SERIES_CAT_IDS)
    /\ [][KNOWN_SERIES_CAT_IDS \subseteq KNOWN_SERIES_CAT_IDS']_vars

C10_Witness ==
    /\ cats = <<Cat_Turkish>>
    /\ {Cat_KoreanSeries.id, Cat_TvSeries.id} \subseteq KNOWN_SERIES_CAT_IDS

---------------------------------------------------------------------------
(* Claims about the list screen, checked under SpecList.                    *)

\* a page fetch for the tab named key is in flight: boot's first page, a
\* loadFirstPage fetch or a loadNextPage fetch
PageFetchInFlight(key) ==
    \/ FetchesFor(key) # {}
    \/ bootPc = "page" /\ tabs[1].key = key

\* no post id occurs twice in ps
DistinctIds(ps) == \A i, j \in 1..Len(ps) : ps[i].id = ps[j].id => i = j

\* C11: a loadNextPage call for a tab made while a page fetch for that tab
\* is in flight issues no further request and changes no state.
C11_LoadNextPageSuppressedInFlight ==
    [][\A k \in 1..Len(tabs) :
          (LoadNextPage(tabs[k]) /\ PageFetchInFlight(tabs[k].key))
              => UNCHANGED <<tabStates, pageFetches>>]_vars

\* C12: in every reachable state the posts accumulated for a tab hold no
\* post id twice (no page of the remote holds an id twice).
C12_NoDuplicatePostIds ==
    \A key \in DOMAIN tabStates : DistinctIds(tabStates[key].posts)

---------------------------------------------------------------------------
(* Claims about the series screen, checked under SpecSeries.                *)

\* the section is one of the two pinned sections
IsPinned(sec) == sec.key \in {<<"l", "a", "t", "e", "s", "t">>, <<"t", "r", "e", "n", "d", "i", "n", "g">>}

\* a is an initial part of b
IsPrefix(a, b) == Len(a) <= Len(b) /\ SubSeq(b, 1, Len(a)) = a

\* C13: a background category response of a load() call that a newer load()
\* call has superseded never adds a section to the visible list: every
\* category section shown was fetched by the latest load() call.
C13_StaleCategoryResponseDiscarded ==
    \A i \in 1..Len(seriesSections) :
        ~IsPinned(seriesSections[i]) => seriesSections[i].load = loadCount

\* C14: in every reachable state the pinned sections "latest" and
\* "trending", when shown, stand before every category section.
C14_PinnedBeforeCategorySections ==
    \A i, j \in 1..Len(seriesSections) :
        (IsPinned(seriesSections[j]) /\ ~IsPinned(seriesSections[i])) => j < i

\* C16: when a background category fetch fails, the sections already
\* visible stay as they are and the error flag stays as it is; no settling
\* background fetch alters a visible section; the error flag is raised only
\* by the failure of the pinned/category fetch of a load() call.
C16_BackgroundFailureIsSilent ==
    [][ /\ (\E r \in categoryFetches : CategoryFails(r))
             => (seriesSections' = seriesSections /\ error' = error)
        /\ (categoryFetches' # categoryFetches /\ pinnedFetches' = pinnedFetches)
             => (IsPrefix(seriesSections, seriesSections') /\ error' = error)
        /\ (~error /\ error')
             => (pinnedFetches' # pinnedFetches
                 /\ pinnedFetches' \subseteq pinnedFetches) ]_vars

\* the first load() showed both pinned sections and every background fetch
\* it started has failed
C16_Witness ==
    /\ loadCount = 1
    /\ pinnedFetches = {}
    /\ seriesCats(cats) # <<>>
    /\ categoryFetches = {}
    /\ Len(seriesSections) = 2
    /\ \A i \in 1..Len(seriesSections) : IsPinned(seriesSections[i])
    /\ ~error

---------------------------------------------------------------------------
(* Claims about withRetry, checked under SpecRetry.                         *)

\* C15: withRetry calls the fetch function at most 3 times; it returns the
\* first success without a further attempt; it waits 800 ms times k after
\* the k-th failed attempt (k = 1, 2); it throws the last error, and only
\* after the third failure.
C15_RetryThreeAttempts ==
    /\ [](/\ retry.calls <= 3
          /\ retry.status = "returned"
               => (retry.calls = Len(retry.errors) + 1
                   /\ retry.result \in RetryValues)
          /\ Len(retry.waited) = (IF Len(retry.errors) < 2 THEN Len(retry.errors)
                                  ELSE 2)
          /\ \A k \in 1..Len(retry.waited) : retry.waited[k] = 800 * k
          /\ retry.status = "thrown" <=> Len(retry.errors) = 3
          /\ retry.status = "thrown"
               => (retry.calls = 3 /\ retry.result = retry.errors[3]))
    /\ [][retry.status \in {"returned", "thrown"} => retry' = retry]_vars

\* three failures in a row with two waits between them
C15_Witness ==
    /\ retry.status = "thrown"
    /\ retry.errors = <<"network", "timeout", "http-500">>
    /\ retry.waited = <<800, 1600>>
    /\ retry.result = "http-500"

---------------------------------------------------------------------------
(* Claims about the section builders, second part, checked under            *)
(* SpecSections.                                                            *)

\* the release-year-<n> tags of a post
YearTagsOf(p) ==
    {t \in TagsOf(p) : /\ Len(t) > 13
                       /\ SubSeq(t, 1, 13) = <<"r", "e", "l", "e", "a", "s", "e", "-", "y", "e", "a", "r", "-">>
                       /\ \A i \in 14..Len(t) : IsDigit(t[i])}

\* the posts of the feed carrying the release-year tag cls, in feed order
YearGroup(cls) == SelectSeq(feed, LAMBDA p : cls \in YearTagsOf(p))

\* the publish years of ps, in order
YearsOf(ps) == [i \in 1..Len(ps) |-> ps[i].date]

\* how often the year y occurs in ys, and where it occurs first
YearCount(ys, y) == Cardinality({i \in 1..Len(ys) : ys[i] = y})
FirstIndex(ys, y) == CHOOSE i \in 1..Len(ys) : ys[i] = y /\ \A j \in 1..(i - 1) : ys[j] # y

\* the most frequent year of ys, the first encountered among equally
\* frequent ones
RepresentativeYear(ys) ==
    CHOOSE y \in Range(ys) :
        \A z \in Range(ys) :
            \/ YearCount(ys, y) > YearCount(ys, z)
            \/ /\ YearCount(ys, y) = YearCount(ys, z)
               /\ FirstIndex(ys, y) <= FirstIndex(ys, z)

\* the year a section of buildYearSections stands for: that of the group
\* named in its key year-<tag>
SectionYear(sec) ==
    RepresentativeYear(YearsOf(YearGroup(SubSeq(sec.key, 6, Len(sec.key)))))

\* the label ends with the decimal digits of the number y
LabelEndsWith(label, y) ==
    LET d == NumToString(y)
    IN  Len(label) >= Len(d) /\ SubSeq(label, Len(label) - Len(d) + 1, Len(label)) = d

\* C17: buildYearSections returns one section per release-year group,
\* labelled with the most frequent publish year of the group's posts, the
\* first encountered year winning a tie; a group with publish years
\* [2024, 2024, 2023] yields one section labelled 2024.
C17_YearSectionShowsModeYear ==
    \A b \in Range(built) :
        b.kind = "year" =>
            /\ \A i, j \in 1..Len(b.out) : b.out[i].key = b.out[j].key => i = j
            /\ \A sec \in Range(b.out) : LabelEndsWith(sec.label, SectionYear(sec))
            /\ (/\ YearsOf(feed) = <<2024, 2024, 2023>>
                /\ \E cls \in YearTagsOf(feed[1]) : YearGroup(cls) = feed)
                 => (Len(b.out) = 1 /\ LabelEndsWith(b.out[1].label, 2024))

C17_Witness ==
    \E b \in Range(built) :
        /\ b.kind = "year"
        /\ YearsOf(feed) = <<2024, 2024, 2023>>
        /\ YearGroup(<<"r", "e", "l", "e", "a", "s", "e", "-", "y", "e", "a", "r", "-", "1", "2">>) = feed
        /\ Len(b.out) = 1

\* C18: buildYearSections returns its sections ordered from the newest
\* derived year to the oldest (non-increasing).
C18_YearSectionsNewestFirst ==
    \A b \in Range(built) :
        b.kind = "year" =>
            \A i, j \in 1..Len(b.out) :
                i < j => SectionYear(b.out[i]) >= SectionYear(b.out[j])

\* the group met first has the older year and is returned second
C18_Witness ==
    \E b \in Range(built) :
        /\ b.kind = "year"
        /\ Len(b.out) = 2
        /\ {getFullYear(feed[1].date)} = Range(YearsOf(YearGroup(<<"r", "e", "l", "e", "a", "s", "e", "-", "y", "e", "a", "r", "-", "1", "2">>)))
        /\ b.out[1].key = <<"y", "e", "a", "r", "-", "r", "e", "l", "e", "a", "s", "e", "-", "y", "e", "a", "r", "-", "2", "6">>
        /\ SectionYear(b.out[1]) > SectionYear(b.out[2])

\* number of posts of the feed in the group a section of the builder named
\* kind was cut from
SectionGroupSize(kind, sec) ==
    CASE kind = "country" ->
           Cardinality({i \in 1..Len(feed) :
               <<"c", "o", "u", "n", "t", "r", "y", "-">> \o getClass(feed[i], <<"c", "o", "u", "n", "t", "r", "y">>) = sec.key})
      [] kind = "language" ->
           Cardinality({i \in 1..Len(feed) :
               <<"l", "a", "n", "g", "-">> \o getClass(feed[i], <<"l", "a", "n", "g", "u", "a", "g", "e">>) = sec.key})
      [] OTHER ->
           Cardinality({i \in 1..Len(feed) :
               \E j \in 1..Len(feed[i].categories) :
                   <<"c", "a", "t", "-">> \o NumToString(feed[i].categories[j]) = sec.key})

\* C19: buildCountrySections, buildLanguageSections and
\* buildCategorySections each return their sections in non-increasing order
\* of the item count of the whole group.
C19_SectionsLargestGroupFirst ==
    \A b \in Range(built) :
        b.kind \in {"country", "language", "category", "category-movies"} =>
            \A i, j \in 1..Len(b.out) :
                i < j => SectionGroupSize(b.kind, b.out[i])
                             >= SectionGroupSize(b.kind, b.out[j])

\* the category ids on the posts of the feed
FeedCategoryIds == UNION {Range(p.categories) : p \in Range(feed)}

\* the posts of the feed listing the category id, in feed order
CategoryGroup(id) == SelectSeq(feed, LAMBDA p : id \in Range(p.categories))

\* the category list cs names the id as uncategorized
NamedUncategorized(cs, id) ==
    \E c \in Range(cs) :
        /\ c.id = id
        /\ \/ includes(toLowerCase(c.name), <<"u", "n", "c", "a", "t", "e", "g", "o", "r">>)
           \/ includes(toLowerCase(c.name), <<"ar_ghain", "ar_yeh", "ar_reh", " ", "ar_meem", "ar_sad", "ar_noon", "ar_feh">>)

\* C20: buildCategorySections places a post in the group of every one of
\* its category ids; it returns no section for a category whose name marks
\* it as uncategorized and, with excludeSeriesCategories, none for a
\* category id of the registry.
C20_CategoryGroups ==
    \A b \in Range(built) :
        b.kind \in {"category", "category-movies"} =>
            LET excluded == IF b.kind = "category-movies" THEN b.known ELSE {}
                eligible(id) == /\ Len(CategoryGroup(id)) >= 2
                                /\ ~NamedUncategorized(b.cs, id)
                                /\ id \notin excluded
            IN  /\ \A sec \in Range(b.out) :
                     \E id \in FeedCategoryIds :
                        /\ sec.key = <<"c", "a", "t", "-">> \o NumToString(id)
                        /\ eligible(id)
                        /\ IsPrefix(sec.posts, CategoryGroup(id))
                        /\ Len(sec.posts) \in {10, Len(CategoryGroup(id))}
                /\ \A id \in FeedCategoryIds :
                     eligible(id) =>
                        \E sec \in Range(b.out) : sec.key = <<"c", "a", "t", "-">> \o NumToString(id)

\* one call with excludeSeriesCategories drops the group of a registry
\* category and the uncategorized group, and keeps another group
C20_Witness ==
    \E b \in Range(built) :
        /\ b.kind = "category-movies"
        /\ \E id \in FeedCategoryIds \cap b.known : Len(CategoryGroup(id)) >= 2
        /\ \E id \in FeedCategoryIds :
              NamedUncategorized(b.cs, id) /\ Len(CategoryGroup(id)) >= 2
        /\ b.out # <<>>

\* the posts of the feed whose tag of the prefix has the value id
TagGroup(prefix, id) == SelectSeq(feed, LAMBDA p : getClass(p, prefix) = id)

\* the values of the tags of the prefix on the posts of the feed
TagIds(prefix) == {getClass(p, prefix) : p \in Range(feed)} \ {<<>>}

CountryLabels == {COUNTRY_META[id].label : id \in DOMAIN COUNTRY_META}

\* C21: buildCountrySections returns, for a group of 2 or more posts whose
\* country id has no COUNTRY_META entry, a section with a generic label
\* built from the id; buildLanguageSections returns no section for a group
\* whose language id has no LANG_META entry, whatever its size.
C21_UnlistedCountryShownLanguageDropped ==
    \A b \in Range(built) :
        /\ b.kind = "country" =>
              \A id \in TagIds(<<"c", "o", "u", "n", "t", "r", "y">>) \ DOMAIN COUNTRY_META :
                  Len(TagGroup(<<"c", "o", "u", "n", "t", "r", "y">>, id)) >= 2 =>
                      \E sec \in Range(b.out) :
                          /\ sec.key = <<"c", "o", "u", "n", "t", "r", "y", "-">> \o id
                          /\ includes(sec.label, id)
                          /\ sec.label # id
                          /\ sec.label \notin CountryLabels
                          /\ IsPrefix(sec.posts, TagGroup(<<"c", "o", "u", "n", "t", "r", "y">>, id))
        /\ b.kind = "language" =>
              \A sec \in Range(b.out) :
                  \E id \in DOMAIN LANG_META : sec.key = <<"l", "a", "n", "g", "-">> \o id

\* one list with a group of two posts of country 77 and language 999, run
\* through both builders: the country is shown, the language is not
C21_Witness ==
    /\ Len(TagGroup(<<"c", "o", "u", "n", "t", "r", "y">>, <<"7", "7">>)) >= 2
    /\ Len(TagGroup(<<"l", "a", "n", "g", "u", "a", "g", "e">>, <<"9", "9", "9">>)) >= 2
    /\ \E b \in Range(built) :
          /\ b.kind = "country"
          /\ \E sec \in Range(b.out) : sec.key = <<"c", "o", "u", "n", "t", "r", "y", "-", "7", "7">>
    /\ \E b \in Range(built) :
          /\ b.kind = "language"
          /\ b.out # <<>>
          /\ \A sec \in Range(b.out) : sec.key # <<"l", "a", "n", "g", "-", "9", "9", "9">>

\* the entries of the class_list of the post that are strings, in source
\* order
StringEntries(p) ==
    IF p.class_list.shape \in {"array", "object"}
    THEN SelectSeq(p.class_list.items, LAMBDA e : e.str)
    ELSE <<>>

\* C22: safeClassList never throws and returns a list of strings only: the
\* empty list for an absent field, the string entries of an array in source
\* order, the string values of a map-like object; entries that are not
\* strings are dropped in every shape.
C22_SafeClassListOnlyStrings ==
    tagRead.classList.called =>
        /\ ~tagRead.classList.threw
        /\ \A e \in Range(tagRead.classList.value) : e.str
        /\ tagRead.classList.value = StringEntries(tagPost)

\* the value of the tag t when t is <prefix>-<value> with a value that is
\* not empty and, unless the prefix is series, all digits; empty otherwise
ValueOfTag(t, prefix) ==
    LET n == Len(prefix)
        v == SubSeq(t, n + 2, Len(t))
    IN  IF /\ Len(t) > n + 1
           /\ SubSeq(t, 1, n) = prefix
           /\ t[n + 1] = "-"
           /\ (prefix = <<"s", "e", "r", "i", "e", "s">> \/ \A k \in 1..Len(v) : IsDigit(v[k]))
        THEN v
        ELSE <<>>

\* every entry of an array class_list is a string
ArrayOfStrings(p) ==
    p.class_list.shape = "array" => \A e \in Range(p.class_list.items) : e.str

C25_IsMovieComplementsIsSeries ==
    /\ tagRead.series.called => ~tagRead.series.threw
    /\ tagRead.movie.called => ~tagRead.movie.threw
    /\ (tagRead.series.called /\ tagRead.movie.called) =>
          tagRead.movie.value = ~tagRead.series.value

\* C24: cleanTitle is idempotent: applied to its own result it returns that
\* result unchanged, for every input, including double-encoded entities
\* and entity-encoded angle brackets that decode to tag-like text.
C24_CleanTitleIdempotent ==
    cleaned.calls = 2 => cleaned.twice = cleaned.once

\* the cap on the category records of one fetchCategories call
MaxCategoryRecords == 200

RECURSIVE TotalSize(_)
TotalSize(chunks) ==
    IF chunks = <<>> THEN 0 ELSE Head(chunks).size + TotalSize(Tail(chunks))

\* C26: fetchCategories returns the records of the pages it fetched in
\* page order, and it is capped: it requests at most the pages that 200
\* records fill and returns at most 200 records, whatever page count the
\* X-WP-TotalPages header of the first response reports.
C26_FetchCategoriesCapped ==
    /\ Cardinality(catFetch.sent) * CategoriesPerPage <= MaxCategoryRecords
    /\ catFetch.pc = "done" =>
          /\ \A i \in 1..Len(catFetch.result) : catFetch.result[i].page = i
          /\ TotalSize(catFetch.result) <= MaxCategoryRecords

\* C27: on the series screen no two visible sections share a key, in every
\* reachable state and under every interleaving of reloads and background
\* responses.
C27_SectionKeysUnique ==
    \A i, j \in 1..Len(seriesSections) :
        seriesSections[i].key = seriesSections[j].key => i = j

\* a category section of the first load() is still shown after the second
\* load() has settled, the fetch of the second load() for the same category
\* included
C27_Witness ==
    /\ loadCount = 2
    /\ pinnedFetches = {}
    /\ categoryFetches = {}
    /\ ~error
    /\ \E i \in 1..Len(seriesSections) :
          /\ seriesSections[i].load = 1
          /\ \E c \in Range(seriesCats(cats)) :
                seriesSections[i].key = <<"c", "a", "t", "-">> \o NumToString(c.id)

\* the fetchPage call r of loadNextPage settles in this step
NextPageSettles(r) ==
    \/ NextPageFails(r)
    \/ \E res \in PageResultsFor(r.tab) : NextPageArrives(r, res)

\* C28: after a pull-to-refresh of a tab, the settling of a loadNextPage
\* request made for that tab before the refresh changes nothing of the
\* tab's state (posts, page, hasMore, total, loading).
C28_StaleNextPageResponseIgnored ==
    [][\A r \in PageFetchSet :
          (r.kind = "next" /\ r.stale /\ NextPageSettles(r))
              => tabStates'[r.tab.key] = tabStates[r.tab.key]]_vars

\* the pagination data of a tab state
PageData(st) == [posts |-> st.posts, page |-> st.page, hasMore |-> st.hasMore,
                 total |-> st.total]

\* the states of the tabs other than the one named key
OtherTabs(ts, key) == [k \in DOMAIN ts \ {key} |-> ts[k]]

\* C29: when the fetch of a loadNextPage call fails, the posts, page,
\* hasMore and total of the tab stay as they are and its loading flag is
\* false again, so that the next loadNextPage call requests the page number
\* of the failed call again; no outcome of a loadNextPage fetch changes
\* the state of another tab.
C29_FailedNextPageLeavesTabRetryable ==
    [][\A r \in PageFetchSet :
          /\ (r.kind = "next" /\ NextPageFails(r)) =>
                /\ PageData(tabStates'[r.tab.key]) = PageData(tabStates[r.tab.key])
                /\ tabStates'[r.tab.key].loading = FALSE
                /\ tabStates'[r.tab.key].page + 1 = r.page
          /\ (r.kind = "next" /\ NextPageSettles(r)) =>
                OtherTabs(tabStates', r.tab.key) = OtherTabs(tabStates, r.tab.key)]_vars

\* every section shown holds the posts fetched for the mode m
ShowsMode(pbs, m) == \A id \in DOMAIN pbs : pbs[id].orderby = OrderBy(m)

\* C30: on the movies screen, when the mode is switched between latest and
\* trending while section fetches are in flight, then once the last
\* outstanding loadAllSections call has delivered its posts, postsBySection
\* holds the posts fetched for the mode now selected, never those of a
\* request made for the previous mode.
C30_PostsMatchSelectedMode ==
    [][\A r \in SectionLoadSet :
          (SectionsArrive(r) /\ sectionLoads' = EmptyBag)
              => ShowsMode(postsBySection', movieMode')]_vars

====
